---------------------------- MODULE Spec2Model ----------------------------
(***************************************************************************)
(* Orchestration core of the RPA orchestrator:                             *)
(*   - TOTPManager (totp_manager.py): code generation and reservation in   *)
(*     the Valkey store,                                                   *)
(*   - BrowserServiceManager (browser_service_manager.py): provisioning,   *)
(*     termination and idle sweep of browser sandboxes,                    *)
(*   - dispatch_job / poll_job_queue / job_complete_callback                *)
(*     (enhanced_orchestrator.py).                                         *)
(* Threads: the scheduler thread running poll_job_queue (process 0), one   *)
(* background task per job created with priority > 5 (process j for job j),*)
(* the request handler running the completion callback, and the scheduler  *)
(* job running the idle sweep.                                             *)
(***************************************************************************)
EXTENDS Integers, Sequences, FiniteSets, TLC

\* ------------------------------------------------------------------ bounds
\* jobs in the job store; threads are the scheduler thread and one per job
NumJobs == 1
\* the clock of the TOTP callers runs to MaxTime in steps of TickStep
MaxTime == 100
TickStep == 10
\* number of distinct TOTP code values
CodeSpace == 2
\* completion callbacks received in all
MaxCallbacks == 2
\* dispatch_job calls started in all
MaxDispatches == 1
\* the clock of the idle sweep runs to MaxSweepTime in steps of SweepStep
SweepStep == 60
MaxSweepTime == 900
\* entries of the configured list WORKER_URLS, at most
MaxWorkers == 3
\* reads of a pod that is not ready yet before its phase is decided, at most
MaxPending == 61
\* seconds one read_namespaced_pod call takes, at most
MaxReadTime == 1
\* a recency log found at startup holds all its entries but MaxFree at most
MaxFree == 1
\* the ACTIVE_JOBS counter of a worker goes up to MaxActiveJobs
MaxActiveJobs == 1

\* ------------------------------------------------------- program constants
totp_window == 30
used_codes_ttl == 60
max_retries == 3
\* cleanup_idle_services: idle_threshold_minutes = 10, in seconds
idle_threshold == 600
\* the interval of the scheduler job cleanup_browser_services (minutes=2), in seconds
cleanup_interval == 120
\* _wait_for_pod_ready: timeout = 120 and the sleep between two reads
ready_timeout == 120
ready_sleep == 2
\* _record_totp_generation: zremrangebyrank(key, 0, -1001) keeps 1000 entries
timeline_keep == 1000

\* `None` returned by get_fresh_totp_code / the initial totp_code of dispatch_job
NoCode == -1
\* the window of a call that has not called _wait_for_next_window
NoWindow == -1
\* browser_service_info: not yet assigned ('browser_service_info' not in locals())
BsiUnbound == -1
\* browser_service_info: the None returned by provision_browser_service
BsiNone == 0

Jobs == 1 .. NumJobs
PollProc == 0
Procs == 0 .. NumJobs
Codes == 0 .. (CodeSpace - 1)

totp_providers == {"octotel"}
Providers == {"octotel", "Octotel", "metrofiber"}
JobProviders == {"octotel", "metrofiber"}
\* a provider name no automation exists for
UnknownProvider == "no_such_provider"

\* str.lower() on the provider names in use
Lower(provider) ==
    IF provider = "Octotel" THEN "octotel" ELSE provider

\* an absent key of the reservation store
NoRes == [job_id |-> 0, at |-> 0, exp |-> 0]

\* service ids: browser-{job_id}-{uuid4().hex[:8]}, one fresh id per call
ServiceIds == 1 .. (NumJobs + 1)

\* the result field of a job: nothing, the dispatch record (worker, browser
\* service), the dispatch error, or a worker's result
NoResult == [kind |-> "none", n |-> 0]

\* the payloads of a completion callback: a status with the result the worker
\* reports for it
CallbackStatuses == {"completed", "failed"}

WorkerResult(status) ==
    [kind |-> "worker", n |-> IF status = "completed" THEN 1 ELSE 2]

\* the sum of f over the set S
RECURSIVE Sum(_, _)
Sum(f, S) ==
    IF S = {} THEN 0
    ELSE LET x == CHOOSE y \in S : TRUE IN f[x] + Sum(f, S \ {x})

\* a service id that is not a key of active_services
NotActive == [job_id |-> 0, created_at |-> 0]

VARIABLES
    now,            \* wall clock, seconds
    valkeyUp,       \* the Valkey store answers
    totp_secrets,   \* TOTPManager.totp_secrets: providers with a secret loaded
    used,           \* keys totp:used:{provider}:{code} -> reservation
    generated,      \* counters totp:generated:{provider}, by provider
    timeline,       \* sorted sets totp:timeline:{provider}, by provider:
                    \* (member, score) entries in the order of their scores
    resLog,         \* history: every reservation the store accepted
    consumed,       \* keys totp:consumed:{provider}:{job_id}
    metrics,        \* counters totp:metrics:{provider}:success / :failure
    dbUp,           \* the job store answers
    apiUp,          \* the Kubernetes API answers every call
    nextSweep,      \* scheduler: next run time of cleanup_browser_services
    services_to_remove, \* cleanup_idle_services: the list of its latest run
    jobStatus,      \* job store: status of each job ("absent": not created)
    jobResult,      \* job store: result of each job
    jobProvider,    \* job store: provider of each job
    pods,           \* control plane: service ids whose pod exists
    services,       \* control plane: service ids whose service exists
    active_services,\* BrowserServiceManager.active_services
    nextUid,        \* source of fresh service ids
    pollBatch,      \* poll_job_queue: jobs of the batch not yet dispatched
    workerJobs,     \* payloads accepted by a worker
    cbCount,        \* completion callbacks received per job
    dispatches,     \* dispatch_job calls started so far
    cbResponse,     \* the latest completion callback: its response and effects
    proc            \* per thread: position and locals

totpVars == <<used, generated, timeline, resLog>>
markVars == <<consumed, metrics>>
\* the environment and the scheduler
envVars == <<valkeyUp, totp_secrets, dbUp, apiUp, nextSweep, services_to_remove>>
jobVars == <<jobStatus, jobResult, jobProvider>>
k8sVars == <<pods, services, active_services, nextUid>>
cbVars == <<cbCount, dispatches, cbResponse>>

vars == <<now, envVars, totpVars, markVars, jobVars, k8sVars, pollBatch,
          workerJobs, cbVars, proc>>

\* a thread outside any call.  answer, cause, ret, termCalls, sid and
\* provOutcome record what the call met and did and are read by no action.
IdleProc ==
    [pc |-> "idle", job_id |-> 0, provider |-> "none", cont |-> "none",
     attempt |-> 0, code |-> NoCode, wakeAt |-> 0, totp_code |-> NoCode,
     bsi |-> BsiUnbound, answer |-> "none", cause |-> "none", ret |-> "none",
     termCalls |-> 0, sid |-> 0, provOutcome |-> "none",
     target |-> 0, wasActive |-> FALSE, issued |-> FALSE, overlap |-> FALSE,
     podStatus |-> "none", svcStatus |-> "none", termRet |-> "none",
     sawReady |-> "none", sawHealthy |-> FALSE, waitedFrom |-> NoWindow,
     probes |-> << >>, worker |-> 0,
     dictLen |-> 0, scanned |-> {}, toRemove |-> {}, threshold |-> 0,
     oldAtStart |-> {}, calledAt |-> 0,
     pending |-> 0, readTime |-> 0, elapsed |-> 0, readyRet |-> FALSE,
     pool |-> << >>, payloadValid |-> FALSE]

\* the 30 s window of time t
Window(t) ==
    t \div totp_window

\* pyotp.TOTP(secret).now(): the HOTP value of the 30 s counter, truncated to
\* a fixed number of digits
TotpCode(t) ==
    (t \div totp_window) % CodeSpace

\* key totp:used:{provider}:{code}
Key(provider, code) ==
    <<provider, code>>

Keys == totp_providers \X Codes

\* the key exists: it was set and its EX has not run out
Live(k) ==
    used[k] # NoRes /\ now < used[k].exp

\* _is_code_used: exists(key) > 0; on a store error assume the code is used
IsCodeUsed(provider, code) ==
    IF valkeyUp THEN Live(Key(provider, code)) ELSE TRUE

\* a sleep of the time elapsed in the window
WaitTimeElapsed(t) ==
    (t % totp_window) + 1

\* _wait_for_next_window: the sleep it computes at time t
WaitTime(t) ==
    totp_window - (t % totp_window) + 1

\* a SET without NX: the store accepts it over a live key
SetAlwaysAccepted(k) ==
    TRUE

\* what SET key value NX EX ttl answers: not None iff the key was absent
SetNxAccepted(k) ==
    ~ Live(k)

\* the SET NX EX of _reserve_code reaches the store and writes the key
ReserveStored(provider, code) ==
    valkeyUp /\ SetNxAccepted(Key(provider, code))

\* a store error taken for a reservation
ReserveOkOnError(provider, code) ==
    ~ valkeyUp \/ SetNxAccepted(Key(provider, code))

\* _reserve_code: SET NX EX used_codes_ttl; False on a store error
ReserveOk(provider, code) ==
    valkeyUp /\ SetNxAccepted(Key(provider, code))

\* get_fresh_totp_code raises to its caller when the store is as `up` says:
\* never, an exception of a store call is caught where the call is made
\* (lines 169-173, 203-206, 266-267) and any other at lines 152-154
TotpRaises(up) ==
    FALSE

\* a reservation that lives as long as a code window
ReservationExpiryWindow(t) ==
    t + totp_window

\* an expiry a sixth of the configured time after t
ReservationExpirySixth(t) ==
    t + used_codes_ttl \div 6

\* the expiry given to a reservation made at time t
ReservationExpiry(t) ==
    t + used_codes_ttl

\* ZADD key {member: score}: the member gets the score, whether or not it
\* was in the sorted set z; entries of one score stand in member order
ZAdd(z, member, score) ==
    LET rest == SelectSeq(z, LAMBDA e : e.member # member)
        Below(e) == \/ e.score < score
                    \/ e.score = score /\ e.member < member
    IN SelectSeq(rest, Below) \o <<[member |-> member, score |-> score]>>
                              \o SelectSeq(rest, LAMBDA e : ~ Below(e))

\* a sorted set nothing is removed from
KeepTimeline(z) ==
    z

\* ZREMRANGEBYRANK key 0 -1001: every entry below the 1000 of highest rank
\* is removed
TrimTimeline(z) ==
    IF Len(z) > timeline_keep
    THEN SubSeq(z, Len(z) - timeline_keep + 1, Len(z))
    ELSE z

\* the store calls _record_totp_generation makes, in their order
RecordOps == 3

\* _record_totp_generation(provider, job_id) at time t, lines 252-267, when
\* the store answers the first `ops` of its calls (INCR, ZADD,
\* ZREMRANGEBYRANK): the call that fails raises, the error is logged and the
\* calls after it are not made
RecordTotpGeneration(g, tl, provider, job_id, t, ops) ==
    [generated |-> IF ops >= 1 THEN [g EXCEPT ![provider] = @ + 1] ELSE g,
     timeline |-> IF ops >= 3
                  THEN [tl EXCEPT ![provider] = TrimTimeline(ZAdd(@, job_id, t))]
                  ELSE IF ops = 2
                  THEN [tl EXCEPT ![provider] = ZAdd(@, job_id, t)]
                  ELSE tl]

\* the locals of a thread after get_fresh_totp_code returned `value`
\* (waitedFrom keeps the window in which the call last went to sleep)
TotpReturned(p, value) ==
    [proc[p] EXCEPT !.pc = IF proc[p].cont = "direct" THEN "returned" ELSE "provision",
                    !.totp_code = value, !.code = NoCode, !.wakeAt = 0,
                    !.attempt = 0]

\* the locals of a thread that goes to sleep until the next window
TotpSleeping(p) ==
    [proc[p] EXCEPT !.pc = "totp_sleep", !.code = NoCode,
                    !.wakeAt = now + WaitTime(now), !.waitedFrom = Window(now)]

\* get_fresh_totp_code, lines 120-128: the secret lookup
TotpEnter(p) ==
    /\ proc[p].pc = "totp_enter"
    /\ proc' = [proc EXCEPT ![p] =
                  IF Lower(proc[p].provider) \notin totp_secrets
                  THEN TotpReturned(p, NoCode)
                  ELSE [proc[p] EXCEPT !.pc = "totp_gen", !.attempt = 0,
                                       !.provider = Lower(proc[p].provider)]]
    /\ UNCHANGED <<now, envVars, totpVars, markVars, jobVars, k8sVars, pollBatch,
                   workerJobs, cbVars>>

\* lines 130-135 (and 145-147 when the code is in use): generate the current
\* code and look it up
TotpGen(p) ==
    /\ proc[p].pc = "totp_gen"
    /\ LET code == TotpCode(now) IN
         proc' = [proc EXCEPT ![p] =
                    IF TotpRaises(valkeyUp)
                    THEN [TotpReturned(p, NoCode) EXCEPT !.ret = "raised"]
                    ELSE IF IsCodeUsed(proc[p].provider, code)
                    THEN TotpSleeping(p)
                    ELSE [proc[p] EXCEPT !.pc = "totp_reserve", !.code = code]]
    /\ UNCHANGED <<now, envVars, totpVars, markVars, jobVars, k8sVars, pollBatch,
                   workerJobs, cbVars>>

\* lines 137-143 (and 145-147 on a conflict): reserve, record, return; the
\* store answers the first `ops` calls of the recording and, when these are
\* not all of them, is unreachable from then on
TotpReserveRec(p, ops) ==
    /\ proc[p].pc = "totp_reserve"
    /\ LET provider == proc[p].provider
           code == proc[p].code
           k == Key(provider, code)
           rec == RecordTotpGeneration(generated, timeline, provider,
                                       proc[p].job_id, now, ops)
           stored == ReserveStored(provider, code)
       IN /\ used' = IF stored
                     THEN [used EXCEPT ![k] =
                             [job_id |-> proc[p].job_id, at |-> now,
                              exp |-> ReservationExpiry(now)]]
                     ELSE used
          /\ resLog' = IF stored
                       THEN resLog \cup
                              {[key |-> k, job_id |-> proc[p].job_id, at |-> now,
                                exp |-> ReservationExpiry(now)]}
                       ELSE resLog
          /\ IF TotpRaises(valkeyUp)
             THEN /\ proc' = [proc EXCEPT ![p] =
                               [TotpReturned(p, NoCode) EXCEPT !.ret = "raised"]]
                  /\ UNCHANGED <<generated, timeline, valkeyUp>>
             ELSE IF ReserveOk(provider, code)
             THEN /\ generated' = rec.generated
                  /\ timeline' = rec.timeline
                  /\ valkeyUp' = (valkeyUp /\ ops = RecordOps)
                  /\ proc' = [proc EXCEPT ![p] = TotpReturned(p, code)]
             ELSE /\ proc' = [proc EXCEPT ![p] = TotpSleeping(p)]
                  /\ UNCHANGED <<generated, timeline, valkeyUp>>
    /\ UNCHANGED <<now, totp_secrets, dbUp, apiUp, nextSweep, services_to_remove,
                   markVars, jobVars, k8sVars, pollBatch, workerJobs, cbVars>>

\* the same with a store that answers the recording as it answered the
\* reservation
TotpReserve(p) ==
    TotpReserveRec(p, IF valkeyUp THEN RecordOps ELSE 0)

\* the store at time t: keys whose EX ran out are gone
Expire(u, t) ==
    [k \in Keys |-> IF u[k] # NoRes /\ u[k].exp <= t THEN NoRes ELSE u[k]]

\* a loop that goes on whatever the attempt number
RetryAlways(attempt) ==
    TRUE

\* line 130, for attempt in range(max_retries): another iteration follows
\* the one numbered attempt
RetryLeft(attempt) ==
    attempt + 1 < max_retries

\* time.sleep(wait_time) returns, not before wakeAt: next iteration of the
\* loop at line 130, or the return of None at lines 149-150 (the number of
\* attempts made is then left in attempt)
TotpWake(p) ==
    /\ proc[p].pc = "totp_sleep"
    /\ now' = IF now >= proc[p].wakeAt THEN now ELSE proc[p].wakeAt
    /\ used' = Expire(used, now')
    /\ proc' = [proc EXCEPT ![p] =
                  IF RetryLeft(proc[p].attempt)
                  THEN [proc[p] EXCEPT !.pc = "totp_gen", !.wakeAt = 0,
                                       !.attempt = proc[p].attempt + 1]
                  ELSE [TotpReturned(p, NoCode) EXCEPT
                           !.attempt = proc[p].attempt + 1]]
    /\ UNCHANGED <<envVars, generated, timeline, resLog, markVars, jobVars, k8sVars,
                   pollBatch, workerJobs, cbVars>>

\* a call _wait_for_next_window() by thread p when int(time.time()) is t:
\* the thread is to wake at t plus the sleep computed
WaitCall(p, t) ==
    /\ proc[p].pc \in {"idle", "returned"}
    /\ proc' = [proc EXCEPT ![p] =
                  [IdleProc EXCEPT !.pc = "returned", !.cont = "wait",
                                   !.calledAt = t, !.wakeAt = t + WaitTime(t),
                                   !.waitedFrom = Window(t), !.ret = "normal"]]
    /\ UNCHANGED <<now, envVars, totpVars, markVars, jobVars, k8sVars, pollBatch,
                   workerJobs, cbVars>>

\* a direct call get_fresh_totp_code(provider, job_id) by thread p
TotpCall(p, j, provider) ==
    /\ proc[p].pc = "idle"
    /\ proc' = [proc EXCEPT ![p] =
                  [IdleProc EXCEPT !.pc = "totp_enter", !.job_id = j,
                                   !.provider = provider, !.cont = "direct"]]
    /\ UNCHANGED <<now, envVars, totpVars, markVars, jobVars, k8sVars, pollBatch,
                   workerJobs, cbVars>>


\* ------------------------------------------------ BrowserServiceManager

\* the answers of one Kubernetes API call
ApiAnswers ==
    IF apiUp THEN {"ok"} ELSE {"ok", "error"}

\* what _wait_for_pod_ready can observe within its timeout
\* ("read_error": the read raised ApiException, answered with False;
\* "exception": it raised anything else, which leaves the function)
ReadyOutcomes ==
    {"ready", "failed", "timeout"}
        \cup (IF apiUp THEN {} ELSE {"read_error", "exception"})

ActiveIds ==
    {s \in ServiceIds : active_services[s] # NotActive}

\* what a delete request for resource sid of the set R comes back with: the
\* resource deleted, a 404 because it was already gone, or another API error
DeleteStatus(R, sid, answer) ==
    IF answer = "error" THEN "error"
    ELSE IF sid \in R THEN "deleted" ELSE "not_found"

\* a 404 counted as a failure like any other error
DeleteFailedUnlessDeleted(status) ==
    status # "deleted"

\* a cleanup that takes no answer for a failure
DeleteNeverFailed(status) ==
    FALSE

\* _cleanup_resources, lines 323-326 and 335-338: if e.status != 404
DeleteFailed(status) ==
    status \notin {"deleted", "not_found"}

\* a cleanup that deletes the pod and leaves the service
CleanupPodOnly(P, S, sid, delPod, delSvc) ==
    [pods |-> IF delPod = "ok" THEN P \ {sid} ELSE P,
     services |-> S,
     success |-> (delPod = "ok"),
     podStatus |-> DeleteStatus(P, sid, delPod), svcStatus |-> "none"]

\* _cleanup_resources: delete the pod, then the service; a 404 is ignored,
\* any other API error leaves the resource and makes the result False
CleanupResources(P, S, sid, delPod, delSvc) ==
    LET podStatus == DeleteStatus(P, sid, delPod)
        svcStatus == DeleteStatus(S, sid, delSvc)
    IN [pods |-> IF podStatus = "deleted" THEN P \ {sid} ELSE P,
        services |-> IF svcStatus = "deleted" THEN S \ {sid} ELSE S,
        success |-> ~ DeleteFailed(podStatus) /\ ~ DeleteFailed(svcStatus),
        podStatus |-> podStatus, svcStatus |-> svcStatus]

\* a membership test that finds every id
InActiveServicesAlways(A, sid) ==
    TRUE

\* terminate_browser_service, line 288: service_id in self.active_services
InActiveServices(A, sid) ==
    A[sid] # NotActive

\* terminate_browser_service, run without interruption
TerminateBrowserService(A, P, S, sid, delPod, delSvc) ==
    IF ~ InActiveServices(A, sid)
    THEN [active |-> A, pods |-> P, services |-> S, ret |-> FALSE]
    ELSE LET c == CleanupResources(P, S, sid, delPod, delSvc) IN
         [active |-> IF c.success THEN [A EXCEPT ![sid] = NotActive] ELSE A,
          pods |-> c.pods, services |-> c.services, ret |-> c.success]

\* a test for the phase Failed only
TerminalPhaseFailedOnly(obs) ==
    obs = "failed"

\* line 238: pod.status.phase in ["Failed", "Unknown"]
TerminalPhase(obs) ==
    obs \in {"failed", "unknown"}

\* _wait_for_pod_ready, lines 222-249, for a pod that shows `pending` reads
\* of a phase that decides nothing (Pending, or Running with a container not
\* ready) and `final` from then on ("ready": Running with all containers
\* ready; "failed", "unknown": the phase; "read_error": the read raises
\* ApiException; "exception": it raises another exception), each read taking
\* `d` seconds; `elapsed`
\* is time.time() - start_time at the loop test.  The result is the value
\* returned and the time it is returned at; an exception other than
\* ApiException is not caught and leaves the function at that read.
RECURSIVE WaitForPodReady(_, _, _, _)
WaitForPodReady(elapsed, pending, final, d) ==
    IF ~ (elapsed < ready_timeout)
    THEN [ret |-> FALSE, at |-> elapsed, outcome |-> "timeout"]
    ELSE IF pending > 0 \/ ~ (final \in {"read_error", "exception", "ready"}
                              \/ TerminalPhase(final))
    THEN WaitForPodReady(elapsed + d + ready_sleep,
                         IF pending = 0 THEN 0 ELSE pending - 1, final, d)
    ELSE [ret |-> final = "ready", at |-> elapsed + d,
          outcome |-> IF TerminalPhase(final) THEN "failed" ELSE final]

\* a call _wait_for_pod_ready(pod_name) by thread p
WaitReadyCall(p, pending, final, d) ==
    /\ proc[p].pc = "idle"
    /\ LET r == WaitForPodReady(0, pending, final, d) IN
       proc' = [proc EXCEPT ![p] =
                  [IdleProc EXCEPT !.pc = "returned", !.cont = "wait_ready",
                                   !.pending = pending, !.answer = final,
                                   !.readTime = d, !.readyRet = r.ret,
                                   !.elapsed = r.at, !.cause = r.outcome,
                                   !.ret = IF r.outcome = "exception"
                                           THEN "raised" ELSE "normal"]]
    /\ UNCHANGED <<now, envVars, totpVars, markVars, jobVars, k8sVars, pollBatch,
                   workerJobs, cbVars>>

\* a sandbox registered as soon as its pod is ready
MayActivateWhenReady(ready, healthy) ==
    ready = "ready"

\* provision_browser_service, lines 83-94: _wait_for_pod_ready returned True
\* and then _verify_browser_health returned True
MayActivate(ready, healthy) ==
    ready = "ready" /\ healthy

\* a sandbox tracked although its provisioning is given up
TrackEarly(A, sid, job_id, t) ==
    [A EXCEPT ![sid] = [job_id |-> job_id, created_at |-> t]]

\* provision_browser_service, lines 84-94 and 112-117: the returns of None
\* come before line 107 and nothing on their way writes active_services
KeepActive(A, sid, job_id, t) ==
    A

\* provision_browser_service, lines 96-107: service_info with the job id and
\* the creation time, stored under the sandbox id
TrackActive(A, sid, job_id, t) ==
    [A EXCEPT ![sid] = [job_id |-> job_id, created_at |-> t]]

\* provision_browser_service(job_id) with the fresh id sid at time t; k8s
\* gives what the cluster answers to the calls it makes
ProvisionBrowserService(A, P, S, sid, job_id, t, k8s) ==
    IF k8s.createPod = "error"
    THEN [active |-> KeepActive(A, sid, job_id, t),
          pods |-> P, services |-> S, ret |-> BsiNone,
          outcome |-> "create_pod_error"]
    ELSE IF k8s.createSvc = "error"
    THEN [active |-> KeepActive(A, sid, job_id, t),
          pods |-> P \cup {sid}, services |-> S, ret |-> BsiNone,
          outcome |-> "create_service_error"]
    ELSE IF k8s.ready = "exception"
    THEN [active |-> KeepActive(A, sid, job_id, t),
          pods |-> P \cup {sid}, services |-> S \cup {sid},
          ret |-> BsiNone, outcome |-> "exception"]
    ELSE IF ~ MayActivate(k8s.ready, k8s.healthy)
    THEN LET c == CleanupResources(P \cup {sid}, S \cup {sid}, sid, k8s.delPod,
                                   k8s.delSvc)
         IN [active |-> KeepActive(A, sid, job_id, t),
             pods |-> c.pods, services |-> c.services, ret |-> BsiNone,
             outcome |-> IF k8s.ready # "ready" THEN k8s.ready ELSE "unhealthy"]
    ELSE [active |-> TrackActive(A, sid, job_id, t),
          pods |-> P \cup {sid}, services |-> S \cup {sid}, ret |-> sid,
          outcome |-> "active"]

\* the locals of a thread after provision_browser_service returned r:
\* dispatch_job lines 287-292, or the return to a direct caller
Provisioned(p, sid, r) ==
    [proc[p] EXCEPT !.bsi = r.ret, !.sid = sid, !.provOutcome = r.outcome,
                    !.pc = IF proc[p].cont = "direct" THEN "returned"
                           ELSE IF r.ret = BsiNone THEN "handler" ELSE "worker",
                    !.cause = IF proc[p].cont # "direct" /\ r.ret = BsiNone
                              THEN "provision" ELSE proc[p].cause]

Provision(p) ==
    /\ proc[p].pc = "provision"
    /\ nextUid \in ServiceIds
    /\ \E createPod \in ApiAnswers, createSvc \in ApiAnswers,
          ready \in ReadyOutcomes, healthy \in BOOLEAN,
          delPod \in ApiAnswers, delSvc \in ApiAnswers :
         LET r == ProvisionBrowserService(active_services, pods, services, nextUid,
                                          proc[p].job_id, now,
                                          [createPod |-> createPod,
                                           createSvc |-> createSvc, ready |-> ready,
                                           healthy |-> healthy, delPod |-> delPod,
                                           delSvc |-> delSvc])
         IN /\ active_services' = r.active
            /\ pods' = r.pods
            /\ services' = r.services
            /\ nextUid' = nextUid + 1
            /\ proc' = [proc EXCEPT ![p] =
                          [Provisioned(p, nextUid, r) EXCEPT
                              !.sawReady = IF "error" \in {createPod, createSvc}
                                           THEN "none" ELSE ready,
                              !.sawHealthy = /\ "error" \notin {createPod, createSvc}
                                             /\ ready = "ready"
                                             /\ healthy]]
    /\ UNCHANGED <<now, envVars, totpVars, markVars, jobVars, pollBatch, workerJobs,
                   cbVars>>

\* a direct call provision_browser_service(job_id) by thread p
ProvisionCall(p, j) ==
    /\ proc[p].pc \in {"idle", "returned"}
    /\ nextUid \in ServiceIds
    /\ proc' = [proc EXCEPT ![p] =
                  [IdleProc EXCEPT !.pc = "provision", !.job_id = j,
                                   !.cont = "direct"]]
    /\ UNCHANGED <<now, envVars, totpVars, markVars, jobVars, k8sVars, pollBatch,
                   workerJobs, cbVars>>

\* --- terminate_browser_service(service_id) called by thread p, step by step:
\* the membership test, the two delete requests and the removal from the
\* dictionary are separate steps of the thread, with no lock around them

\* thread p is inside terminate_browser_service(sid)
Terminating(p, sid) ==
    /\ proc[p].pc \in {"term_check", "term_cleanup", "term_remove"}
    /\ proc[p].target = sid

\* return of terminate_browser_service
TermReturned(p, value) ==
    [proc[p] EXCEPT !.pc = "returned", !.termRet = value]

\* the call; sid is an id that provision_browser_service has generated
TerminateCall(p, sid) ==
    /\ proc[p].pc \in {"idle", "returned"}
    /\ sid \in ServiceIds
    /\ sid < nextUid
    /\ proc' = [q \in Procs |->
                  IF q = p
                  THEN [IdleProc EXCEPT !.pc = "term_check", !.target = sid,
                                        !.cont = "direct",
                                        !.overlap = \E o \in Procs \ {p} :
                                                        Terminating(o, sid)]
                  ELSE IF Terminating(q, sid)
                  THEN [proc[q] EXCEPT !.overlap = TRUE]
                  ELSE proc[q]]
    /\ UNCHANGED <<now, envVars, totpVars, markVars, jobVars, k8sVars, pollBatch,
                   workerJobs, cbVars>>

\* lines 288-296: the membership test and the read of the entry
TermCheck(p) ==
    /\ proc[p].pc = "term_check"
    /\ proc' = [proc EXCEPT ![p] =
                  IF InActiveServices(active_services, proc[p].target)
                  THEN [proc[p] EXCEPT !.pc = "term_cleanup", !.wasActive = TRUE]
                  ELSE TermReturned(p, "false")]
    /\ UNCHANGED <<now, envVars, totpVars, markVars, jobVars, k8sVars, pollBatch,
                   workerJobs, cbVars>>

\* line 299: _cleanup_resources
TermCleanup(p) ==
    /\ proc[p].pc = "term_cleanup"
    /\ \E delPod \in ApiAnswers, delSvc \in ApiAnswers :
         LET c == CleanupResources(pods, services, proc[p].target, delPod, delSvc)
             q == [proc[p] EXCEPT !.issued = TRUE, !.podStatus = c.podStatus,
                                  !.svcStatus = c.svcStatus]
         IN /\ pods' = c.pods
            /\ services' = c.services
            /\ proc' = [proc EXCEPT ![p] =
                          IF c.success THEN [q EXCEPT !.pc = "term_remove"]
                          ELSE [q EXCEPT !.pc = "returned", !.termRet = "false"]]
    /\ UNCHANGED <<now, envVars, totpVars, markVars, jobVars, active_services,
                   nextUid, pollBatch, workerJobs, cbVars>>

\* lines 301-309: del self.active_services[service_id]; the KeyError of an
\* entry that is no longer there is caught at line 307, which returns False
TermRemove(p) ==
    /\ proc[p].pc = "term_remove"
    /\ IF InActiveServices(active_services, proc[p].target)
       THEN /\ active_services' =
                  [active_services EXCEPT ![proc[p].target] = NotActive]
            /\ proc' = [proc EXCEPT ![p] = TermReturned(p, "true")]
       ELSE /\ active_services' = active_services
            /\ proc' = [proc EXCEPT ![p] = TermReturned(p, "false")]
    /\ UNCHANGED <<now, envVars, totpVars, markVars, jobVars, pods, services,
                   nextUid, pollBatch, workerJobs, cbVars>>

\* the pod of a sandbox goes away outside the orchestrator (eviction, node
\* loss, a delete by an operator): the case _cleanup_resources answers with
\* its 404 branch
PodVanishes(sid) ==
    /\ sid \in pods
    /\ pods' = pods \ {sid}
    /\ UNCHANGED <<now, envVars, totpVars, markVars, jobVars, services,
                   active_services, nextUid, pollBatch, workerJobs, cbVars, proc>>

\* the threshold taken in hours
IdleThresholdHours(t) ==
    t - 60 * idle_threshold

\* cleanup_idle_services, line 351: utcnow() - timedelta(minutes=threshold)
IdleThreshold(t) ==
    t - idle_threshold

\* a selection that takes every active service
ServicesToRemoveAll(A, t) ==
    {s \in ServiceIds : A[s] # NotActive}

\* lines 354-359: the services created before the threshold
ServicesToRemove(A, t) ==
    {s \in ServiceIds : A[s] # NotActive /\ A[s].created_at < IdleThreshold(t)}

\* lines 361-362: terminate_browser_service for each of them; del gives the
\* answers of the two delete calls made for a service
RECURSIVE TerminateAll(_, _, _, _, _)
TerminateAll(A, P, S, ids, del) ==
    IF ids = {} THEN [active |-> A, pods |-> P, services |-> S]
    ELSE LET sid == CHOOSE x \in ids : TRUE
             t == TerminateBrowserService(A, P, S, sid, del[sid][1], del[sid][2])
         IN TerminateAll(t.active, t.pods, t.services, ids \ {sid}, del)

\* the run time after the one at t, for the interval trigger
NextRunTime(t) ==
    t + cleanup_interval

\* the scheduler runs cleanup_idle_services at its run time
CleanupIdleServices ==
    /\ now >= nextSweep
    /\ \E del \in [ServiceIds -> ApiAnswers \X ApiAnswers] :
         LET r == TerminateAll(active_services, pods, services,
                               ServicesToRemove(active_services, now), del)
         IN /\ active_services' = r.active
            /\ pods' = r.pods
            /\ services' = r.services
    /\ services_to_remove' = ServicesToRemove(active_services, now)
    /\ nextSweep' = NextRunTime(nextSweep)
    /\ UNCHANGED <<now, valkeyUp, totp_secrets, dbUp, apiUp, totpVars, markVars,
                   jobVars, nextUid, pollBatch, workerJobs, cbVars, proc>>

\* --- cleanup_idle_services run by thread p step by step: the loop of line
\* 354 iterates the dictionary active_services itself, with no lock and no
\* copy, while other threads insert (line 107) and delete (line 302)

\* the check a dictionary iterator makes at every step: the dictionary has
\* not the size it had when the iteration began (RuntimeError: dictionary
\* changed size during iteration)
DictSizeChanged(A, len) ==
    Cardinality({s \in ServiceIds : A[s] # NotActive}) # len

\* lines 349-354: the threshold is taken and the iteration begins
SweepBegin(p) ==
    /\ proc[p].pc \in {"idle", "done"}
    /\ now >= nextSweep
    /\ nextSweep' = NextRunTime(nextSweep)
    /\ proc' = [proc EXCEPT ![p] =
                  [IdleProc EXCEPT
                     !.pc = "sweep_scan", !.cont = "sweep",
                     !.threshold = IdleThreshold(now),
                     !.dictLen = Cardinality(ActiveIds),
                     !.oldAtStart = ServicesToRemove(active_services, now)]]
    /\ UNCHANGED <<now, valkeyUp, totp_secrets, dbUp, apiUp, services_to_remove,
                   totpVars, markVars, jobVars, k8sVars, pollBatch, workerJobs,
                   cbVars>>

\* lines 354-359: one step of the iterator.  It raises when the dictionary
\* changed size, which leaves cleanup_idle_services (no try around the
\* loop); otherwise it gives the next entry, in insertion order, or ends.
SweepNext(p) ==
    /\ proc[p].pc = "sweep_scan"
    /\ LET rest == ActiveIds \ proc[p].scanned IN
       IF DictSizeChanged(active_services, proc[p].dictLen)
       THEN proc' = [proc EXCEPT ![p].pc = "done", ![p].ret = "raised"]
       ELSE IF rest = {}
       THEN proc' = [proc EXCEPT ![p].pc = "sweep_term"]
       ELSE LET s == CHOOSE x \in rest : \A y \in rest : x <= y IN
            proc' = [proc EXCEPT
                       ![p].scanned = @ \cup {s},
                       ![p].toRemove =
                          IF active_services[s].created_at < proc[p].threshold
                          THEN @ \cup {s} ELSE @]
    /\ UNCHANGED <<now, envVars, totpVars, markVars, jobVars, k8sVars, pollBatch,
                   workerJobs, cbVars>>

\* lines 361-364: terminate_browser_service for the next service of the list
SweepTerminate(p) ==
    /\ proc[p].pc = "sweep_term"
    /\ IF proc[p].toRemove = {}
       THEN /\ proc' = [proc EXCEPT ![p].pc = "done", ![p].ret = "normal"]
            /\ UNCHANGED k8sVars
       ELSE \E delPod \in ApiAnswers, delSvc \in ApiAnswers :
              LET s == CHOOSE x \in proc[p].toRemove :
                         \A y \in proc[p].toRemove : x <= y
                  t == TerminateBrowserService(active_services, pods, services, s,
                                               delPod, delSvc)
              IN /\ active_services' = t.active
                 /\ pods' = t.pods
                 /\ services' = t.services
                 /\ UNCHANGED nextUid
                 /\ proc' = [proc EXCEPT ![p].toRemove = @ \ {s},
                                         ![p].termCalls = @ + 1]
    /\ UNCHANGED <<now, envVars, totpVars, markVars, jobVars, pollBatch, workerJobs,
                   cbVars>>

\* ------------------------------------------------------------ job store

\* db.update_job_status(job_id, status, result=...): the status is replaced,
\* the result too when one is given
UpdateStatus(st, j, status) ==
    [st EXCEPT ![j] = status]

UpdateResult(rs, j, result) ==
    IF result = NoResult THEN rs ELSE [rs EXCEPT ![j] = result]

\* ----------------------------------------------------------- dispatch_job

provider_requires_totp(provider) ==
    Lower(provider) \in totp_providers

\* the locals of a thread entering dispatch_job(job_dict), lines 268-270
Dispatching(j) ==
    [IdleProc EXCEPT !.pc = "start", !.job_id = j, !.provider = jobProvider[j],
                     !.cont = "dispatch"]

\* lines 272-283: the write of "dispatching", then the branch on the provider
DispatchBegin(p) ==
    /\ proc[p].pc = "start"
    /\ IF dbUp
       THEN /\ jobStatus' = UpdateStatus(jobStatus, proc[p].job_id, "dispatching")
            /\ proc' = [proc EXCEPT ![p].pc =
                          IF provider_requires_totp(proc[p].provider)
                          THEN "totp_enter" ELSE "provision"]
       ELSE /\ proc' = [proc EXCEPT ![p].pc = "handler", ![p].cause = "db"]
            /\ UNCHANGED jobStatus
    /\ UNCHANGED <<now, envVars, totpVars, markVars, jobResult, jobProvider, k8sVars,
                   pollBatch, workerJobs, cbVars>>

\* what the worker pool answers: whether find_available_worker finds a worker,
\* and what send_job_to_worker returns for it (a transport error or a timeout
\* is returned as status "error").  The name requests in these functions is
\* the requests library.
WorkerAnswers == {"accepted", "rejected", "error"}

\* what the status probe of one worker gives: 200 with available true, 200
\* with available false or missing, another status code, or an exception
\* (connection error, timeout, a body that is not JSON)
ProbeAnswers == {"available", "busy", "not200", "error"}

\* the lists WORKER_URLS can hold, each entry given by what its probe answers
WorkerLists ==
    UNION {[1 .. n -> ProbeAnswers] : n \in 0 .. MaxWorkers}

\* a test for the status code only
ProbeAnswered200(answer) ==
    answer \in {"available", "busy"}

\* lines 348-351: status_code == 200 and status.get("available", False)
ProbeAvailable(answer) ==
    answer = "available"

\* lines 345-356: the loop over the list from entry i on; a probe that raises
\* is logged and the loop continues.  The result is the position of the
\* worker returned, 0 for None.
RECURSIVE FindFrom(_, _)
FindFrom(probes, i) ==
    IF i > Len(probes) THEN 0
    ELSE IF ProbeAvailable(probes[i]) THEN i
    ELSE FindFrom(probes, i + 1)

find_available_worker(probes) ==
    FindFrom(probes, 1)

\* a call of find_available_worker() by thread p against a worker list
FindWorkerCall(p, probes) ==
    /\ proc[p].pc \in {"idle", "returned"}
    /\ proc' = [proc EXCEPT ![p] =
                  [IdleProc EXCEPT !.pc = "returned", !.cont = "find_worker",
                                   !.probes = probes,
                                   !.worker = find_available_worker(probes),
                                   !.ret = "normal"]]
    /\ UNCHANGED <<now, envVars, totpVars, markVars, jobVars, k8sVars, pollBatch,
                   workerJobs, cbVars>>

\* a test for the absence of an error status only
AcceptedUnlessError(response) ==
    response # "error"

\* line 314: response.get("status") == "accepted"
Accepted(response) ==
    response = "accepted"

\* --- the worker service of the repository, worker_refactored.py, as the
\* orchestrator meets it

\* a worker: whether its address answers, its ACTIVE_JOBS counter and the
\* health of its browser service
WorkerStates ==
    [reachable : BOOLEAN, active_jobs : 0 .. MaxActiveJobs, browser : BOOLEAN]

\* get_status, worker_refactored.py lines 166-192: the body of GET /status
\* (the keys the orchestrator could read; capabilities left out)
get_status(w) ==
    [status |-> "operational",
     worker_info |-> [active_jobs |-> w.active_jobs],
     browser_service |-> [available |-> w.browser]]

\* find_available_worker, lines 347-351, for the worker w: requests.get
\* raises when w does not answer; get_status answers 200; the test is
\* status.get("available", False) on the body
StatusProbe(w) ==
    IF ~ w.reachable THEN "error"
    ELSE LET status == get_status(w) IN
         IF "available" \in DOMAIN status /\ status.available = TRUE
         THEN "available" ELSE "busy"

\* execute_job, worker_refactored.py lines 195-287, for a payload that
\* JobRequest accepts: the status of the JobResponse, returned when the
\* automation has ended; the automation returns a result ("returns"), raises
\* AutomationError, raises another exception, or outlasts WORKER_TIMEOUT
\* ("slow")
execute_job(outcome) ==
    IF outcome = "returns" THEN "success" ELSE "error"

\* send_job_to_worker, lines 358-370, to the worker w: the status of the
\* dict it returns; a connection error, a timeout and the 422 of a payload
\* that JobRequest refuses are returned as status "error"
send_job_to_worker(w, valid, outcome) ==
    IF ~ w.reachable \/ ~ valid \/ outcome = "slow" THEN "error"
    ELSE execute_job(outcome)

\* a call of find_available_worker() by thread p with the workers of pool
\* listed in WORKER_URLS
ProtocolFind(p, pool) ==
    /\ proc[p].pc = "idle"
    /\ LET probes == [i \in 1 .. Len(pool) |-> StatusProbe(pool[i])] IN
         proc' = [proc EXCEPT ![p] =
                    [IdleProc EXCEPT !.pc = "returned", !.cont = "protocol_find",
                                     !.pool = pool, !.probes = probes,
                                     !.worker = find_available_worker(probes),
                                     !.ret = "normal"]]
    /\ UNCHANGED <<now, envVars, totpVars, markVars, jobVars, k8sVars, pollBatch,
                   workerJobs, cbVars>>

\* lines 311-322 by thread p for the worker w: send_job_to_worker, then the
\* test of the response; a response that is not an acceptance raises
ProtocolSend(p, w, valid, outcome) ==
    /\ proc[p].pc = "idle"
    /\ LET response == send_job_to_worker(w, valid, outcome) IN
         proc' = [proc EXCEPT ![p] =
                    [IdleProc EXCEPT !.pc = "returned", !.cont = "protocol_send",
                                     !.pool = <<w>>, !.payloadValid = valid,
                                     !.cause = outcome, !.answer = response,
                                     !.ret = IF Accepted(response)
                                             THEN "normal" ELSE "raised"]]
    /\ UNCHANGED <<now, envVars, totpVars, markVars, jobVars, k8sVars, pollBatch,
                   workerJobs, cbVars>>

\* lines 294-322: find a worker, send the payload, branch on the response
DispatchSend(p) ==
    /\ proc[p].pc = "worker"
    /\ \E available \in BOOLEAN, response \in WorkerAnswers :
         IF ~ available
         THEN /\ proc' = [proc EXCEPT ![p].pc = "handler", ![p].cause = "no_worker",
                                      ![p].answer = "no_worker"]
              /\ UNCHANGED workerJobs
         ELSE IF Accepted(response)
         THEN /\ proc' = [proc EXCEPT ![p].pc = "accepted", ![p].answer = response]
              /\ workerJobs' = workerJobs \cup
                                 {[job_id |-> proc[p].job_id,
                                   provider |-> proc[p].provider,
                                   sid |-> proc[p].bsi,
                                   totp_code |-> proc[p].totp_code]}
         ELSE /\ proc' = [proc EXCEPT ![p].pc = "handler", ![p].cause = response,
                                      ![p].answer = response]
              /\ UNCHANGED workerJobs
    /\ UNCHANGED <<now, envVars, totpVars, markVars, jobVars, k8sVars, pollBatch,
                   cbVars>>

\* lines 314-320: the worker accepted, the job is written "running"
DispatchRunning(p) ==
    /\ proc[p].pc = "accepted"
    /\ IF dbUp
       THEN /\ jobStatus' = UpdateStatus(jobStatus, proc[p].job_id, "running")
            /\ jobResult' = UpdateResult(jobResult, proc[p].job_id,
                                         [kind |-> "dispatched", n |-> proc[p].bsi])
            /\ proc' = [proc EXCEPT ![p].pc = "done", ![p].ret = "normal"]
       ELSE /\ proc' = [proc EXCEPT ![p].pc = "handler", ![p].cause = "db"]
            /\ UNCHANGED <<jobStatus, jobResult>>
    /\ UNCHANGED <<now, envVars, totpVars, markVars, jobProvider, k8sVars, pollBatch,
                   workerJobs, cbVars>>

\* a test for a name the function never binds
BrowserServiceNeverBound(bsi) ==
    FALSE

\* line 328: 'browser_service_info' in locals()
BrowserServiceBound(bsi) ==
    bsi # BsiUnbound

\* a rollback that deletes the key the job reserved
RollbackReleases(u, provider, code) ==
    [k \in Keys |-> IF k = Key(Lower(provider), code) THEN NoRes ELSE u[k]]

\* lines 324-339: the except block makes no call of the TOTP manager or of
\* the store, so the reservations are what they were
RollbackReservations(u, provider, code) ==
    u

\* lines 324-339, the except block: terminate the browser service when the
\* name browser_service_info is bound, then write "failed".  Subscripting the
\* None of a failed provision raises out of the block.
DispatchHandler(p) ==
    /\ proc[p].pc = "handler"
    /\ LET j == proc[p].job_id IN
       IF BrowserServiceBound(proc[p].bsi) /\ proc[p].bsi = BsiNone
       THEN /\ proc' = [proc EXCEPT ![p].pc = "done", ![p].ret = "raised"]
            /\ UNCHANGED <<jobStatus, jobResult, k8sVars>>
       ELSE \E delPod \in ApiAnswers, delSvc \in ApiAnswers :
              LET bound == BrowserServiceBound(proc[p].bsi)
                  t == IF bound
                       THEN TerminateBrowserService(active_services, pods, services,
                                                    proc[p].bsi, delPod, delSvc)
                       ELSE [active |-> active_services, pods |-> pods,
                             services |-> services, ret |-> FALSE]
              IN /\ active_services' = t.active
                 /\ pods' = t.pods
                 /\ services' = t.services
                 /\ UNCHANGED nextUid
                 /\ jobStatus' = IF dbUp THEN UpdateStatus(jobStatus, j, "failed")
                                 ELSE jobStatus
                 /\ jobResult' = IF dbUp
                                 THEN UpdateResult(jobResult, j,
                                                   [kind |-> "error", n |-> 0])
                                 ELSE jobResult
                 /\ proc' = [proc EXCEPT
                               ![p].pc = "done",
                               ![p].termCalls = IF bound THEN @ + 1 ELSE @,
                               ![p].ret = IF dbUp THEN "normal" ELSE "raised"]
    /\ used' = RollbackReservations(used, proc[p].provider, proc[p].totp_code)
    /\ UNCHANGED <<now, envVars, generated, timeline, resLog, markVars, jobProvider,
                   pollBatch, workerJobs, cbVars>>

\* create_job_endpoint, lines 507-529: the job is stored pending; with
\* priority > 5 its dispatch starts as a background task; cap bounds the
\* number of dispatch_job calls of a run
CreateJobWithin(cap, j, provider, high) ==
    /\ jobStatus[j] = "absent"
    /\ dbUp
    /\ high => dispatches < cap
    /\ dispatches' = IF high THEN dispatches + 1 ELSE dispatches
    /\ UNCHANGED <<cbCount, cbResponse>>
    /\ jobStatus' = [jobStatus EXCEPT ![j] = "pending"]
    /\ jobProvider' = [jobProvider EXCEPT ![j] = provider]
    /\ proc' = IF high
               THEN [proc EXCEPT ![j] =
                       [IdleProc EXCEPT !.pc = "start", !.job_id = j,
                                        !.provider = provider, !.cont = "dispatch"]]
               ELSE proc
    /\ UNCHANGED <<now, envVars, totpVars, markVars, jobResult, k8sVars, pollBatch,
                   workerJobs>>

CreateJob(j, provider, high) ==
    CreateJobWithin(MaxDispatches, j, provider, high)

\* poll_job_queue, lines 245-246: the batch of pending jobs
PollQueue ==
    /\ proc[PollProc].pc \in {"idle", "done"}
    /\ pollBatch = {}
    /\ dbUp
    /\ {j \in DOMAIN jobStatus : jobStatus[j] = "pending"} # {}
    /\ pollBatch' = {j \in DOMAIN jobStatus : jobStatus[j] = "pending"}
    /\ UNCHANGED <<now, envVars, totpVars, markVars, jobVars, k8sVars, workerJobs,
                   cbVars, proc>>

\* a loop that an exception of dispatch_job leaves
PollContinuesUnlessRaised(ret) ==
    ret # "raised"

\* lines 248-252: the call of dispatch_job sits in a try inside the loop
\* body whose except block logs, so the loop goes on whatever the call did
PollContinues(ret) ==
    TRUE

\* poll_job_queue, lines 248-252: the next job of the batch is dispatched;
\* an exception that left the loop would drop the rest of the batch
PollDispatchWithin(cap, j) ==
    /\ proc[PollProc].pc \in {"idle", "done"}
    /\ j \in pollBatch
    /\ dispatches < cap
    /\ IF PollContinues(proc[PollProc].ret)
       THEN /\ dispatches' = dispatches + 1
            /\ pollBatch' = pollBatch \ {j}
            /\ proc' = [proc EXCEPT ![PollProc] = Dispatching(j)]
       ELSE /\ pollBatch' = {}
            /\ proc' = [proc EXCEPT ![PollProc] = IdleProc]
            /\ UNCHANGED dispatches
    /\ UNCHANGED <<now, envVars, totpVars, markVars, jobVars, k8sVars, workerJobs,
                   cbCount, cbResponse>>

PollDispatch(j) ==
    PollDispatchWithin(MaxDispatches, j)

\* ------------------------------------------------- TOTPManager.health_check

\* a health check that looks at the store only
HealthCheckStoreOnly(client, up, secrets) ==
    client /\ up

\* lines 321-337: no client, a ping that raises, or no secret loaded give
\* False; the return value of ping is not looked at
HealthCheck(client, up, secrets) ==
    IF ~ client THEN FALSE
    ELSE IF ~ up THEN FALSE
    ELSE IF secrets = {} THEN FALSE
    ELSE TRUE

\* totp_manager.health_check() called by thread p; client tells whether
\* initialize() got as far as creating self.valkey_client
HealthCheckCall(p, client) ==
    /\ proc[p].pc \in {"idle", "returned"}
    /\ proc' = [proc EXCEPT ![p] =
                  [IdleProc EXCEPT
                     !.pc = "returned", !.cont = "health",
                     !.cause = IF client THEN "client" ELSE "no_client",
                     !.answer = IF HealthCheck(client, valkeyUp, totp_secrets)
                                THEN "healthy" ELSE "unhealthy",
                     !.ret = "normal"]]
    /\ UNCHANGED <<now, envVars, totpVars, markVars, jobVars, k8sVars, pollBatch,
                   workerJobs, cbVars>>

\* ------------------------------------------------- job_complete_callback

\* mark_totp_consumed: the consumed key and the outcome counter; a store
\* error is logged only
MarkConsumed(c, provider, job_id) ==
    IF valkeyUp THEN c \cup {<<provider, job_id>>} ELSE c

MarkMetrics(m, success) ==
    IF valkeyUp
    THEN [m EXCEPT ![IF success THEN "success" ELSE "failure"] = @ + 1]
    ELSE m

\* lines 217-238: both store calls sit in one try whose except block logs the
\* error, so no failure of the store leaves mark_totp_consumed
MarkRaisesWhenDown(up) ==
    ~ up

MarkRaises(up) ==
    FALSE

\* totp_manager.mark_totp_consumed(provider, job_id, success) called by
\* thread p; answer and cause record the outcome argument and whether the
\* store took the call
MarkCall(p, provider, job_id, success) ==
    /\ proc[p].pc \in {"idle", "returned"}
    /\ metrics["success"] + metrics["failure"] < MaxCallbacks
    /\ consumed' = MarkConsumed(consumed, provider, job_id)
    /\ metrics' = MarkMetrics(metrics, success)
    /\ proc' = [proc EXCEPT ![p] =
                  [IdleProc EXCEPT
                     !.pc = "returned", !.cont = "mark", !.provider = provider,
                     !.job_id = job_id,
                     !.answer = IF success THEN "success" ELSE "failure",
                     !.cause = IF valkeyUp THEN "stored" ELSE "store_error",
                     !.ret = IF MarkRaises(valkeyUp) THEN "raised" ELSE "normal"]]
    /\ UNCHANGED <<now, envVars, totpVars, jobVars, k8sVars, pollBatch, workerJobs,
                   cbVars>>

\* what the external endpoint of a completion report answers: the report is
\* delivered, db.get_job finds no job, the endpoint is unreachable, or it
\* answers with an error status
ReportAnswers == {"ok", "lookup_error", "unreachable", "http_error"}

\* CALLBACK_ENDPOINT is not configured: no report is sent
ReportOff == "off"

\* send_external_report, lines 378-400: lookup, post and raise_for_status sit
\* in one try whose except block logs the error
ReportRaisesOnError(answer) ==
    answer \notin {ReportOff, "ok"}

ReportRaises(answer) ==
    FALSE

\* the state of cbResponse before any callback
NoResponse == [status |-> "none", mark |-> "none", report |-> "none"]

\* lines 585-621, for the payload a worker sends for an accepted job w and
\* the answer the external endpoint gives to the completion report.  A raise
\* of line 599 or of a later call leaves the try for the except block of
\* line 619, which answers with status 500.
CallbackHandlerWith(w, status, result, bsid, totp_used, report) ==
    /\ Sum(cbCount, Jobs) < MaxCallbacks
    /\ cbCount' = [cbCount EXCEPT ![w.job_id] = @ + 1]
    /\ IF dbUp
       THEN \E delPod \in ApiAnswers, delSvc \in ApiAnswers :
              LET t == IF bsid # 0
                       THEN TerminateBrowserService(active_services, pods, services,
                                                    bsid, delPod, delSvc)
                       ELSE [active |-> active_services, pods |-> pods,
                             services |-> services, ret |-> FALSE]
                  markRaised == totp_used /\ MarkRaises(valkeyUp)
                  reportRaised == ~ markRaised /\ ReportRaises(report)
              IN /\ jobStatus' = UpdateStatus(jobStatus, w.job_id, status)
                 /\ jobResult' = UpdateResult(jobResult, w.job_id, result)
                 /\ active_services' = t.active
                 /\ pods' = t.pods
                 /\ services' = t.services
                 /\ consumed' = IF totp_used
                                THEN MarkConsumed(consumed, w.provider, w.job_id)
                                ELSE consumed
                 /\ metrics' = IF totp_used
                               THEN MarkMetrics(metrics, status = "completed")
                               ELSE metrics
                 /\ cbResponse' =
                      [status |-> IF markRaised \/ reportRaised
                                  THEN "error" ELSE "acknowledged",
                       mark |-> IF ~ totp_used THEN "none"
                                ELSE IF valkeyUp THEN "stored" ELSE "store_error",
                       report |-> IF markRaised THEN "none" ELSE report]
       ELSE /\ UNCHANGED <<jobStatus, jobResult, active_services, pods, services,
                           consumed, metrics>>
            /\ cbResponse' = [status |-> "error", mark |-> "none", report |-> "none"]
    /\ UNCHANGED <<now, envVars, totpVars, jobProvider, nextUid, pollBatch,
                   workerJobs, dispatches, proc>>

\* the callback of a deployment without CALLBACK_ENDPOINT
CallbackHandler(w, status, result, bsid, totp_used) ==
    CallbackHandlerWith(w, status, result, bsid, totp_used, ReportOff)

\* a worker that was sent the payload w reports the completion of its job
JobCompleteCallback(w, status, result, bsid, totp_used) ==
    /\ w \in workerJobs
    /\ CallbackHandler(w, status, result, bsid, totp_used)

\* time passes
Tick ==
    /\ now + TickStep <= MaxTime
    /\ now' = now + TickStep
    /\ used' = Expire(used, now')
    /\ UNCHANGED <<envVars, generated, timeline, resLog, markVars, jobVars, k8sVars,
                   pollBatch, workerJobs, cbVars, proc>>

\* the reservation store when the orchestrator starts: empty, or holding the
\* reservation another orchestrator process made for the current code
EarlierReservation ==
    [job_id |-> 0, at |-> 0, exp |-> ReservationExpiry(0)]

InitStores ==
    {[k \in Keys |-> NoRes],
     [k \in Keys |-> IF k = Key("octotel", TotpCode(0))
                     THEN EarlierReservation ELSE NoRes]}

\* a recency log of n entries recorded before startup, for jobs of that time
PastLog(n) ==
    [i \in 1 .. n |-> [member |-> NumJobs + 1 + i, score |-> i - n - 1]]

\* the state after startup with the jobs J in the job store's id space, the
\* store holding for each provider a recency log that is empty or lacks at
\* most `free` of its timeline_keep entries (none such for free = -1), and
\* the counter that goes with it
InitFilled(J, free) ==
    /\ now = 0
    /\ valkeyUp = TRUE
    /\ totp_secrets \in {{}, totp_providers}
    /\ used \in InitStores
    /\ \E n \in {0} \cup ((timeline_keep - free) .. timeline_keep) :
         /\ generated = [pr \in totp_providers |-> n]
         /\ timeline = [pr \in totp_providers |-> PastLog(n)]
    /\ resLog = {[key |-> k, job_id |-> used[k].job_id, at |-> used[k].at,
                  exp |-> used[k].exp] : k \in {x \in Keys : used[x] # NoRes}}
    /\ consumed = {}
    /\ metrics = [o \in {"success", "failure"} |-> 0]
    /\ dbUp = TRUE
    /\ apiUp = TRUE
    /\ nextSweep = cleanup_interval
    /\ services_to_remove = {}
    /\ jobStatus = [j \in J |-> "absent"]
    /\ jobResult = [j \in J |-> NoResult]
    /\ jobProvider = [j \in J |-> "none"]
    /\ pods = {}
    /\ services = {}
    /\ active_services = [s \in ServiceIds |-> NotActive]
    /\ nextUid = 1
    /\ pollBatch = {}
    /\ workerJobs = {}
    /\ cbCount = [j \in Jobs |-> 0]
    /\ dispatches = 0
    /\ cbResponse = NoResponse
    /\ proc = [p \in Procs |-> IdleProc]

\* the state after startup with empty recency logs
InitWith(J) ==
    InitFilled(J, -1)

Init ==
    InitWith(Jobs)


\* time passes, up to the next run time of the sweep
SweepTick ==
    /\ now < MaxSweepTime
    /\ now < nextSweep
    /\ now' = IF now + SweepStep < nextSweep THEN now + SweepStep ELSE nextSweep
    /\ used' = Expire(used, now')
    /\ UNCHANGED <<envVars, generated, timeline, resLog, markVars, jobVars, k8sVars,
                   pollBatch, workerJobs, cbVars, proc>>

\* the Kubernetes API starts to fail calls / answers every call again
ApiDown ==
    /\ apiUp
    /\ apiUp' = FALSE
    /\ UNCHANGED <<now, valkeyUp, totp_secrets, dbUp, nextSweep, services_to_remove,
                   totpVars, markVars,
                   jobVars, k8sVars, pollBatch, workerJobs, cbVars, proc>>

ApiRecover ==
    /\ ~ apiUp
    /\ apiUp' = TRUE
    /\ UNCHANGED <<now, valkeyUp, totp_secrets, dbUp, nextSweep, services_to_remove,
                   totpVars, markVars,
                   jobVars, k8sVars, pollBatch, workerJobs, cbVars, proc>>

\* the job store stops answering / answers again
DbDown ==
    /\ dbUp
    /\ dbUp' = FALSE
    /\ UNCHANGED <<now, valkeyUp, totp_secrets, apiUp, nextSweep, services_to_remove,
                   totpVars, markVars,
                   jobVars, k8sVars, pollBatch, workerJobs, cbVars, proc>>

DbRecover ==
    /\ ~ dbUp
    /\ dbUp' = TRUE
    /\ UNCHANGED <<now, valkeyUp, totp_secrets, apiUp, nextSweep, services_to_remove,
                   totpVars, markVars,
                   jobVars, k8sVars, pollBatch, workerJobs, cbVars, proc>>

\* the Valkey store stops answering / answers again
ValkeyDown ==
    /\ valkeyUp
    /\ valkeyUp' = FALSE
    /\ UNCHANGED <<now, totp_secrets, dbUp, apiUp, nextSweep, services_to_remove,
                   totpVars, markVars,
                   jobVars, k8sVars, pollBatch, workerJobs, cbVars, proc>>

ValkeyRecover ==
    /\ ~ valkeyUp
    /\ valkeyUp' = TRUE
    /\ UNCHANGED <<now, totp_secrets, dbUp, apiUp, nextSweep, services_to_remove,
                   totpVars, markVars,
                   jobVars, k8sVars, pollBatch, workerJobs, cbVars, proc>>

NextTotp ==
    \/ Tick
    \/ \E p \in Procs, provider \in Providers : TotpCall(p, p + 1, provider)
    \/ \E p \in Procs : TotpEnter(p)
    \/ \E p \in Procs : TotpGen(p)
    \/ \E p \in Procs : TotpReserve(p)
    \/ \E p \in Procs : TotpWake(p)

SpecTotp == Init /\ [][NextTotp]_vars

\* two request threads that ask for a code at the same time
LogProcs ==
    {PollProc, PollProc + 1}

\* callers of get_fresh_totp_code for a provider that takes codes, against a
\* store that holds the recency log of earlier runs and can become
\* unreachable in the middle of a recording; time passes while they sleep
NextTotpLog ==
    \/ \E p \in LogProcs, provider \in totp_providers :
         TotpCall(p, p + 1, provider)
    \/ \E p \in LogProcs : TotpEnter(p)
    \/ \E p \in LogProcs : TotpGen(p)
    \/ \E p \in LogProcs, ops \in 0 .. RecordOps : TotpReserveRec(p, ops)
    \/ \E p \in LogProcs : TotpWake(p)
    \/ ValkeyRecover

SpecTotpLog == InitFilled(Jobs, MaxFree) /\ [][NextTotpLog]_vars

\* two callers of get_fresh_totp_code against a store that can become
\* unreachable, and reachable again, between any two steps; time passes
\* while they sleep
NextTotpFault ==
    \/ \E p \in LogProcs, provider \in Providers : TotpCall(p, p + 1, provider)
    \/ \E p \in LogProcs : TotpEnter(p)
    \/ \E p \in LogProcs : TotpGen(p)
    \/ \E p \in LogProcs : TotpReserve(p)
    \/ \E p \in LogProcs : TotpWake(p)
    \/ ValkeyDown
    \/ ValkeyRecover

SpecTotpFault == Init /\ [][NextTotpFault]_vars

Next ==
    \/ \E j \in Jobs, provider \in JobProviders, high \in BOOLEAN :
         CreateJob(j, provider, high)
    \/ PollQueue
    \/ \E j \in Jobs : PollDispatch(j)
    \/ \E p \in Procs : DispatchBegin(p)
    \/ \E p \in Procs : TotpEnter(p)
    \/ \E p \in Procs : TotpGen(p)
    \/ \E p \in Procs : TotpReserve(p)
    \/ \E p \in Procs : TotpWake(p)
    \/ \E p \in Procs : Provision(p)
    \/ \E p \in Procs : DispatchSend(p)
    \/ \E p \in Procs : DispatchRunning(p)
    \/ \E p \in Procs : DispatchHandler(p)
    \/ \E w \in workerJobs, status \in CallbackStatuses :
         JobCompleteCallback(w, status, WorkerResult(status), w.sid,
                             w.totp_code # NoCode)

Spec == Init /\ [][Next]_vars

\* the orchestrator with room for one more dispatch_job call, so that a job
\* created with priority > 5 can also be picked up by poll_job_queue
NextTwoPaths ==
    \/ \E j \in Jobs, provider \in JobProviders, high \in BOOLEAN :
         CreateJobWithin(MaxDispatches + 1, j, provider, high)
    \/ \E j \in Jobs : PollDispatchWithin(MaxDispatches + 1, j)
    \/ Next

SpecTwoPaths == Init /\ [][NextTwoPaths]_vars

\* the orchestrator with a job store that can fail
NextDbFault ==
    \/ Next
    \/ DbDown
    \/ DbRecover

SpecDbFault == Init /\ [][NextDbFault]_vars

\* the browser service manager: direct provisioning calls and the idle sweep
NextBsm ==
    \/ SweepTick
    \/ \E j \in Jobs : ProvisionCall(PollProc, j)
    \/ Provision(PollProc)
    \/ CleanupIdleServices

SpecBsm == Init /\ [][NextBsm]_vars

\* the payload held by the worker that runs the job of sandbox s
SandboxPayload(s) ==
    [job_id |-> active_services[s].job_id, provider |-> "metrofiber", sid |-> s,
     totp_code |-> NoCode]

\* sandboxes are provisioned, their jobs report completion with or without
\* the sandbox id in the payload, and the scheduled sweep runs
NextReaper ==
    \/ SweepTick
    \/ ProvisionCall(PollProc, CHOOSE j \in Jobs : TRUE)
    \/ Provision(PollProc)
    \/ \E s \in ActiveIds : \E bsid \in {0, s} :
         CallbackHandler(SandboxPayload(s), "completed", WorkerResult("completed"),
                         bsid, FALSE)
    \/ CleanupIdleServices

SpecReaper == Init /\ [][NextReaper]_vars

\* the threads that call terminate_browser_service: the scheduler thread
\* (cleanup_idle_services) and a thread serving a request (the completion
\* callback, or the except block of dispatch_job)
TermProcs ==
    {PollProc, PollProc + 1}

\* threads that provision sandboxes and call terminate_browser_service
NextTerm ==
    \/ ProvisionCall(PollProc, CHOOSE j \in Jobs : TRUE)
    \/ Provision(PollProc)
    \/ \E sid \in ServiceIds : PodVanishes(sid)
    \/ \E p \in TermProcs, sid \in ServiceIds : TerminateCall(p, sid)
    \/ \E p \in TermProcs : TermCheck(p)
    \/ \E p \in TermProcs : TermCleanup(p)
    \/ \E p \in TermProcs : TermRemove(p)

SpecTerm == Init /\ [][NextTerm]_vars

\* a thread that provisions sandboxes and a thread that calls
\* terminate_browser_service, against a Kubernetes API that can fail the
\* delete requests and pods that can be gone before they are deleted
NextTermFault ==
    \/ ProvisionCall(PollProc, CHOOSE j \in Jobs : TRUE)
    \/ Provision(PollProc)
    \/ \E sid \in ServiceIds : PodVanishes(sid)
    \/ \E sid \in ServiceIds : TerminateCall(PollProc + 1, sid)
    \/ TermCheck(PollProc + 1)
    \/ TermCleanup(PollProc + 1)
    \/ TermRemove(PollProc + 1)
    \/ ApiDown
    \/ ApiRecover

SpecTermFault == Init /\ [][NextTermFault]_vars

\* provisioning calls against a Kubernetes API that can fail
NextBsmFault ==
    \/ \E j \in Jobs : ProvisionCall(PollProc, j)
    \/ Provision(PollProc)
    \/ ApiDown
    \/ ApiRecover

SpecBsmFault == Init /\ [][NextBsmFault]_vars

\* the payload of a job of sandbox s that was given a TOTP code
TotpPayload(s) ==
    [SandboxPayload(s) EXCEPT !.provider = "octotel", !.totp_code = 0]

\* completion callbacks for the jobs of provisioned sandboxes, with a Valkey
\* store and an external report endpoint that can fail
NextCallback ==
    \/ ProvisionCall(PollProc, CHOOSE j \in Jobs : TRUE)
    \/ Provision(PollProc)
    \/ ValkeyDown
    \/ ValkeyRecover
    \/ \E s \in ActiveIds, status \in CallbackStatuses :
         \E w \in {SandboxPayload(s), TotpPayload(s)} :
           \E report \in {ReportOff} \cup ReportAnswers :
             CallbackHandlerWith(w, status, WorkerResult(status), s,
                                 w.totp_code # NoCode, report)

SpecCallback == Init /\ [][NextCallback]_vars

\* calls of _wait_for_next_window at every second of the clock
NextWait ==
    \E t \in 0 .. MaxTime : WaitCall(PollProc, t)

SpecWait == Init /\ [][NextWait]_vars

\* calls of _wait_for_pod_ready for every course the pod can take
NextReady ==
    \E pending \in 0 .. MaxPending, d \in 0 .. MaxReadTime,
       final \in {"ready", "failed", "unknown", "read_error", "exception"} :
       WaitReadyCall(PollProc, pending, final, d)

SpecReady == Init /\ [][NextReady]_vars

\* the scheduler thread that runs cleanup_browser_services
SweepProc == PollProc + 1

\* the sweep runs step by step in its scheduler thread while another thread
\* provisions sandboxes and completion callbacks terminate them
NextSweepRace ==
    \/ SweepTick
    \/ ProvisionCall(PollProc, CHOOSE j \in Jobs : TRUE)
    \/ Provision(PollProc)
    \/ \E s \in ActiveIds :
         CallbackHandler(SandboxPayload(s), "completed", WorkerResult("completed"),
                         s, FALSE)
    \/ SweepBegin(SweepProc)
    \/ SweepNext(SweepProc)
    \/ SweepTerminate(SweepProc)

SpecSweepRace == Init /\ [][NextSweepRace]_vars

\* the jobs of a poll batch: one more than the threads that dispatch
BatchJobs == 1 .. (NumJobs + 1)

\* the scheduler thread alone: jobs are created pending, for the providers in
\* use or for an unknown one, and poll_job_queue dispatches its batch one job
\* after the other
NextPoll ==
    \/ \E j \in BatchJobs, provider \in JobProviders \cup {UnknownProvider} :
         CreateJobWithin(MaxDispatches + 1, j, provider, FALSE)
    \/ PollQueue
    \/ \E j \in BatchJobs : PollDispatchWithin(MaxDispatches + 1, j)
    \/ DispatchBegin(PollProc)
    \/ TotpEnter(PollProc)
    \/ TotpGen(PollProc)
    \/ TotpReserve(PollProc)
    \/ TotpWake(PollProc)
    \/ Provision(PollProc)
    \/ DispatchSend(PollProc)
    \/ DispatchRunning(PollProc)
    \/ DispatchHandler(PollProc)

SpecPoll == InitWith(BatchJobs) /\ [][NextPoll]_vars

\* calls of find_available_worker against every worker list
NextWorkers ==
    \E probes \in WorkerLists : FindWorkerCall(PollProc, probes)

SpecWorkers == Init /\ [][NextWorkers]_vars

\* the orchestrator's two requests to workers that run worker_refactored.py:
\* the probes of the up to MaxWorkers workers WORKER_URLS names, and a
\* payload sent to one worker
NextProtocol ==
    \/ /\ proc[PollProc].pc = "idle"
       /\ \E pool \in UNION {[1 .. n -> WorkerStates] : n \in 1 .. MaxWorkers} :
            ProtocolFind(PollProc, pool)
    \/ /\ proc[PollProc].pc = "idle"
       /\ \E w \in WorkerStates, valid \in BOOLEAN,
             outcome \in {"returns", "automation_error", "exception", "slow"} :
            ProtocolSend(PollProc, w, valid, outcome)

SpecProtocol == Init /\ [][NextProtocol]_vars

\* the payload of job j run with a TOTP code and without a sandbox id
MarkPayload(j) ==
    [job_id |-> j, provider |-> "octotel", sid |-> 0, totp_code |-> 0]

\* calls of mark_totp_consumed, direct and from the completion callback, and
\* of health_check, against a store that can fail
NextMark ==
    \/ \E provider \in totp_providers, j \in Jobs, success \in BOOLEAN :
         MarkCall(PollProc, provider, j, success)
    \/ \E j \in Jobs, status \in CallbackStatuses :
         CallbackHandler(MarkPayload(j), status, WorkerResult(status), 0, TRUE)
    \/ \E client \in BOOLEAN : HealthCheckCall(PollProc, client)
    \/ ValkeyDown
    \/ ValkeyRecover

SpecMark == Init /\ [][NextMark]_vars

\* ------------------------------------------------------------------ claims

\* C1: of all get_fresh_totp_code calls whose reservation the store accepted,
\* two that hold the same (provider, code) key never overlap: the later one was
\* accepted only after the earlier one had expired, and so no two calls
\* reserving within one 30 s window both get that window's code.
C1_OneHolderPerCode ==
    \A r1 \in resLog, r2 \in resLog :
        (r1.key = r2.key /\ r1 # r2) =>
            /\ (r1.exp <= r2.at \/ r2.exp <= r1.at)
            /\ Window(r1.at) # Window(r2.at)

\* C1, its case: within one window a caller holds the window's code and a
\* caller of another job, refused that code, waits for the next window
C1_Witness ==
    \E p \in Procs, q \in Procs :
        /\ proc[p].pc = "returned" /\ proc[p].totp_code = TotpCode(now)
        /\ \E r \in resLog : /\ r.job_id = proc[p].job_id
                             /\ r.key = Key("octotel", proc[p].totp_code)
                             /\ Window(r.at) = Window(now)
        /\ proc[q].pc = "totp_sleep" /\ proc[q].job_id # proc[p].job_id
        /\ proc[q].wakeAt = now + WaitTime(now)

\* the dispatch_job call of thread p returns in this step
Returns(p) ==
    proc[p].cont = "dispatch" /\ proc[p].pc # "done" /\ proc'[p].pc = "done"

\* C2: when dispatch_job returns, normally or by an exception, the status of
\* its job is not "dispatching": it is "running" or "failed".
C2_NeverLeftDispatching ==
    [][\A p \in Procs :
         Returns(p) => jobStatus'[proc[p].job_id] \in {"running", "failed"}]_vars

\* C3: when the provider requires a code and get_fresh_totp_code returned None,
\* dispatch_job makes no call of provision_browser_service.
C3_NoProvisionWithoutCode ==
    \A p \in Procs :
        (/\ proc[p].cont = "dispatch"
         /\ provider_requires_totp(proc[p].provider)
         /\ proc[p].totp_code = NoCode) => proc[p].provOutcome = "none"

\* C4: when provisioning succeeded and no worker is available, dispatch_job
\* has called terminate_browser_service exactly once when it returns, the
\* sandbox is gone and the job is "failed".
C4_NoWorkerTerminatesOnce ==
    [][\A p \in Procs :
         (Returns(p) /\ proc[p].answer = "no_worker") =>
             /\ proc'[p].termCalls = 1
             /\ active_services'[proc[p].bsi] = NotActive
             /\ proc[p].bsi \notin (pods' \cup services')
             /\ jobStatus'[proc[p].job_id] = "failed"]_vars

C4_Witness ==
    \E p \in Procs :
        /\ proc[p].pc = "done" /\ proc[p].answer = "no_worker"
        /\ proc[p].provOutcome = "active" /\ proc[p].termCalls = 1
        /\ jobStatus[proc[p].job_id] = "failed"

\* C5: when the worker answers anything but "accepted", or the submission
\* fails, dispatch_job has called terminate_browser_service for the sandbox when
\* it returns, and the job is "failed".
C5_RejectedFailsAndTerminates ==
    [][\A p \in Procs :
         (Returns(p) /\ proc[p].answer \in {"rejected", "error"}) =>
             /\ proc'[p].termCalls >= 1
             /\ active_services'[proc[p].bsi] = NotActive
             /\ jobStatus'[proc[p].job_id] = "failed"]_vars

C5_Witness ==
    \E p \in Procs :
        /\ proc[p].pc = "done" /\ proc[p].answer = "rejected"
        /\ proc[p].termCalls = 1 /\ active_services[proc[p].bsi] = NotActive
        /\ jobStatus[proc[p].job_id] = "failed"

\* the position of a status in pending, dispatching, running, (completed | failed)
Rank(status) ==
    CASE status = "absent" -> 0
      [] status = "pending" -> 1
      [] status = "dispatching" -> 2
      [] status = "running" -> 3
      [] OTHER -> 4

\* C6: the status of a job is never replaced by an earlier one, and a terminal
\* status is never replaced by a different status.
C6_MonotonicStatus ==
    [][\A j \in Jobs :
         jobStatus'[j] # jobStatus[j] =>
             /\ Rank(jobStatus'[j]) >= Rank(jobStatus[j])
             /\ Rank(jobStatus[j]) < 4]_vars

\* C7: a second completion callback for a job leaves the stored status and
\* result as the first one set them.
C7_SecondCallbackNoEffect ==
    [][\A j \in Jobs :
         (cbCount[j] >= 1 /\ cbCount'[j] = cbCount[j] + 1) =>
             (jobStatus'[j] = jobStatus[j] /\ jobResult'[j] = jobResult[j])]_vars

\* C8: every completion callback, also one whose status write raises, has
\* terminated the sandbox named in its payload and marked the code consumed
\* when one was used.
C8_EffectsIndependent ==
    [][\A j \in Jobs :
         cbCount'[j] = cbCount[j] + 1 =>
             \E w \in workerJobs :
                 /\ w.job_id = j
                 /\ active_services'[w.sid] = NotActive
                 /\ (w.totp_code # NoCode => <<w.provider, j>> \in consumed')]_vars

C10_TimeoutLeavesNothing ==
    \A p \in Procs :
        proc[p].provOutcome = "timeout" =>
            /\ proc[p].bsi = BsiNone
            /\ proc[p].sid \notin pods
            /\ proc[p].sid \notin services
            /\ active_services[proc[p].sid] = NotActive

C10_Witness ==
    \E p \in Procs :
        /\ proc[p].pc = "returned" /\ proc[p].provOutcome = "timeout"
        /\ proc[p].sid \in ServiceIds /\ proc[p].bsi = BsiNone

\* C11: a provision_browser_service call that fails because the service
\* creation request failed after the pod was created, or because a step raised
\* an exception, leaves neither the pod nor the service it created.
C11_FailedProvisionLeavesNothing ==
    \A p \in Procs :
        proc[p].provOutcome \in {"create_service_error", "exception"} =>
            /\ proc[p].sid \notin pods
            /\ proc[p].sid \notin services

\* a returned call of terminate_browser_service by thread p
TermDone(p) ==
    /\ proc[p].pc = "returned"
    /\ proc[p].termRet # "none"

\* C12: terminate_browser_service for a sandbox that is in the active set,
\* with no other terminate call for it in progress, issues the delete of the
\* pod and of the service, removes the sandbox from the active set and returns
\* true, also when the pod or the service was already gone (404).
C12_TerminateActive ==
    \A p \in Procs :
        (TermDone(p) /\ proc[p].wasActive /\ ~ proc[p].overlap) =>
            /\ proc[p].issued
            /\ proc[p].podStatus \in {"deleted", "not_found"}
            /\ proc[p].svcStatus \in {"deleted", "not_found"}
            /\ proc[p].termRet = "true"
            /\ ~ InActiveServices(active_services, proc[p].target)
            /\ proc[p].target \notin pods
            /\ proc[p].target \notin services

\* an active sandbox whose pod had gone was terminated: the pod delete came
\* back 404, the service was deleted, the call returned true
C12_Witness ==
    \E p \in Procs :
        /\ TermDone(p) /\ proc[p].wasActive /\ ~ proc[p].overlap
        /\ proc[p].podStatus = "not_found"
        /\ proc[p].svcStatus = "deleted"
        /\ proc[p].termRet = "true"

\* C13: terminate_browser_service for a sandbox that is no longer in the
\* active set returns at its membership test: it sends no delete request,
\* raises nothing, and leaves the active set and the cluster as they were.
C13_RepeatedTerminateNoOp ==
    [][\A p \in Procs :
          (/\ proc[p].pc = "term_check"
           /\ proc'[p].pc # "term_check"
           /\ active_services[proc[p].target] = NotActive) =>
              /\ proc'[p].pc = "returned"
              /\ proc'[p].termRet = "false"
              /\ ~ proc'[p].issued
              /\ active_services' = active_services
              /\ pods' = pods
              /\ services' = services]_vars

\* one thread terminated the sandbox, another called terminate for it again
\* and returned without a delete request
C13_Witness ==
    \E p \in Procs, q \in Procs :
        /\ p # q
        /\ TermDone(q) /\ proc[q].termRet = "true"
        /\ TermDone(p) /\ proc[p].target = proc[q].target
        /\ ~ proc[p].wasActive /\ ~ proc[p].issued
        /\ proc[p].termRet = "false"

\* C14: when several threads call terminate_browser_service for the same
\* sandbox, the delete requests for it are sent by one of them only.
C14_OneCallerDeletes ==
    \A p \in Procs, q \in Procs :
        (p # q /\ proc[p].issued /\ proc[q].issued) =>
            proc[p].target # proc[q].target

\* C15: a job has at most one active sandbox, whichever path dispatched it
\* (poll_job_queue or the background task of create_job_endpoint): no two
\* entries of the active set have the same job id.
C15_OneSandboxPerJob ==
    \A s \in ActiveIds, t \in ActiveIds :
        s # t => active_services[s].job_id # active_services[t].job_id

\* sandbox s is active and older than idle_threshold
OlderThanThreshold(s) ==
    /\ active_services[s] # NotActive
    /\ now - active_services[s].created_at > idle_threshold

PassedBothChecks(pr, s) ==
    /\ pr.bsi = s
    /\ pr.sid = s
    /\ pr.sawReady = "ready"
    /\ pr.sawHealthy

\* C17: provision_browser_service registers a sandbox in the active set and
\* returns its handle only after the pod was seen ready and the health probe
\* then succeeded, and dispatch_job sends a worker no payload naming a sandbox
\* that has not passed both checks.
C17_ActiveOnlyAfterProbes ==
    [][/\ \A s \in ServiceIds :
            (active_services[s] = NotActive /\ active_services'[s] # NotActive) =>
                \E p \in Procs : PassedBothChecks(proc'[p], s)
       /\ \A p \in Procs :
            (proc[p].pc = "provision" /\ proc'[p].bsi \in ServiceIds) =>
                /\ PassedBothChecks(proc'[p], proc'[p].bsi)
                /\ active_services'[proc'[p].bsi] # NotActive
       /\ \A w \in workerJobs' \ workerJobs :
            \E p \in Procs : PassedBothChecks(proc[p], w.sid)]_vars

\* a worker accepted a payload naming a sandbox that passed both checks
C17_Witness ==
    \E w \in workerJobs, p \in Procs :
        /\ proc[p].pc = "accepted"
        /\ PassedBothChecks(proc[p], w.sid)

\* thread record pr is inside the retry loop of get_fresh_totp_code
InTotpLoop(pr) ==
    pr.pc \in {"totp_gen", "totp_reserve", "totp_sleep"}

\* how far a thread is through the loop: three steps to an attempt
TotpProgress(pr) ==
    3 * pr.attempt + (CASE pr.pc = "totp_gen" -> 0
                        [] pr.pc = "totp_reserve" -> 1
                        [] OTHER -> 2)

\* C18: get_fresh_totp_code terminates: every step of a call takes it further
\* through a loop of at most max_retries attempts or returns, each attempt
\* makes at most one reservation request, and the call returns None exactly
\* when the secret is missing or all max_retries attempts failed.
C18_BoundedAttempts ==
    [][\A p \in Procs :
          /\ InTotpLoop(proc'[p]) => proc'[p].attempt < max_retries
          /\ (proc[p].pc = "totp_enter" /\ proc'[p].pc # "totp_enter") =>
                IF proc'[p].provider \in totp_secrets
                THEN proc'[p].pc = "totp_gen" /\ proc'[p].attempt = 0
                ELSE ~ InTotpLoop(proc'[p]) /\ proc'[p].totp_code = NoCode
          /\ (InTotpLoop(proc[p]) /\ proc'[p] # proc[p]) =>
                \/ /\ InTotpLoop(proc'[p])
                   /\ TotpProgress(proc'[p]) > TotpProgress(proc[p])
                   /\ UNCHANGED resLog
                \/ /\ ~ InTotpLoop(proc'[p])
                   /\ proc'[p].totp_code # NoCode
                   /\ proc[p].pc = "totp_reserve"
                   /\ Cardinality(resLog') <= Cardinality(resLog) + 1
                \/ /\ ~ InTotpLoop(proc'[p])
                   /\ proc'[p].totp_code = NoCode
                   /\ proc[p].pc = "totp_sleep"
                   /\ proc[p].attempt + 1 = max_retries
                   /\ proc'[p].attempt = max_retries]_vars

\* a call made all its attempts and returned None
C18_Witness ==
    \E p \in Procs :
        /\ proc[p].pc = "returned"
        /\ proc[p].provider \in totp_secrets
        /\ proc[p].totp_code = NoCode
        /\ proc[p].attempt = max_retries

\* C19: with the secret loaded, the store answering and no live reservation
\* for the current code when the call checks and when it reserves, the first
\* attempt of get_fresh_totp_code takes the code of the current window,
\* records the reservation of (provider, code) for its job with a lifetime of
\* used_codes_ttl seconds, and returns that code, without sleeping.
C19_FirstAttemptSucceeds ==
    [][\A p \in Procs :
          /\ (/\ proc[p].pc = "totp_gen" /\ proc'[p] # proc[p]
              /\ proc[p].attempt = 0 /\ valkeyUp
              /\ ~ Live(Key(proc[p].provider, TotpCode(now)))) =>
                 /\ proc'[p].pc = "totp_reserve"
                 /\ proc'[p].code = TotpCode(now)
                 /\ now' = now
          /\ (/\ proc[p].pc = "totp_reserve" /\ proc'[p] # proc[p]
              /\ proc[p].attempt = 0 /\ valkeyUp
              /\ ~ Live(Key(proc[p].provider, proc[p].code))) =>
                 /\ ~ InTotpLoop(proc'[p])
                 /\ proc'[p].totp_code = proc[p].code
                 /\ now' = now
                 /\ used'[Key(proc[p].provider, proc[p].code)] =
                       [job_id |-> proc[p].job_id, at |-> now,
                        exp |-> now + used_codes_ttl]]_vars

\* a call returned the code of the first window, in that window, and holds
\* the reservation for it
C19_Witness ==
    \E p \in Procs :
        /\ proc[p].pc = "returned"
        /\ now < totp_window
        /\ proc[p].totp_code = TotpCode(now)
        /\ used[Key(proc[p].provider, proc[p].totp_code)] # NoRes
        /\ used[Key(proc[p].provider, proc[p].totp_code)].job_id = proc[p].job_id
        /\ used[Key(proc[p].provider, proc[p].totp_code)].exp =
              used[Key(proc[p].provider, proc[p].totp_code)].at + used_codes_ttl

\* the reservations of the log made for job j
ReservationsOf(j) ==
    {r \in resLog : r.job_id = j}

\* C20: a call whose attempt collides with another job's reservation for the
\* code of the current window sleeps until a time inside the next window and
\* wakes then; its next attempt takes the code of that later window and, with
\* no live reservation for it, succeeds, so that the reservation it returns
\* with was made in a later window than the one it collided in.
C20_CollisionWaitsForNextWindow ==
    [][\A p \in Procs :
          /\ (proc[p].pc # "totp_sleep" /\ proc'[p].pc = "totp_sleep") =>
                /\ proc'[p].waitedFrom = Window(now)
                /\ Window(proc'[p].wakeAt) = Window(now) + 1
          /\ (proc[p].pc = "totp_sleep" /\ proc'[p].pc # "totp_sleep") =>
                /\ now' >= proc[p].wakeAt
                /\ now <= proc[p].wakeAt => Window(now') = proc[p].waitedFrom + 1
          /\ (/\ proc[p].pc = "totp_gen" /\ proc'[p] # proc[p]
              /\ proc[p].attempt >= 1 /\ valkeyUp
              /\ ~ Live(Key(proc[p].provider, TotpCode(now)))) =>
                 /\ proc'[p].pc = "totp_reserve"
                 /\ proc'[p].code = TotpCode(now)
                 /\ Window(now) > proc[p].waitedFrom
          /\ (/\ proc[p].pc = "totp_reserve" /\ proc'[p] # proc[p]
              /\ proc[p].attempt >= 1 /\ valkeyUp
              /\ ~ Live(Key(proc[p].provider, proc[p].code))) =>
                 /\ ~ InTotpLoop(proc'[p])
                 /\ proc'[p].totp_code = proc[p].code
                 /\ Window(now) > proc[p].waitedFrom
                 /\ \E r \in resLog' \ resLog :
                       /\ r.job_id = proc[p].job_id
                       /\ r.key = Key(proc[p].provider, proc[p].code)
                       /\ r.at = now]_vars

\* two jobs called in the same window: one got its code, the other collided
\* with that reservation, slept, and got the code of the next window
C20_Witness ==
    \E p \in Procs, q \in Procs :
        /\ p # q
        /\ proc[p].pc = "returned" /\ proc[p].totp_code # NoCode
        /\ proc[q].pc = "returned" /\ proc[q].totp_code # NoCode
        /\ proc[q].waitedFrom = NoWindow
        /\ proc[p].waitedFrom # NoWindow
        /\ proc[p].totp_code # proc[q].totp_code
        /\ \E rq \in ReservationsOf(proc[q].job_id), rp \in ReservationsOf(proc[p].job_id) :
              /\ Window(rq.at) = proc[p].waitedFrom
              /\ Window(rp.at) = proc[p].waitedFrom + 1


\* C21: mark_totp_consumed is idempotent on the outcome counters: a call
\* that repeats the (provider, job_id, success) of the call before it, which
\* the store recorded, leaves the success and failure counters as they were.
C21_MarkIdempotent ==
    [][\A p \in Procs :
         (/\ proc[p].cont = "mark"
          /\ proc[p].cause = "stored"
          /\ <<proc[p].provider, proc[p].job_id>> \in consumed
          /\ proc'[p] = proc[p]
          /\ valkeyUp' = valkeyUp)
         => metrics' = metrics]_vars


\* C22: mark_totp_consumed never raises: a call made while the store is
\* unreachable returns normally, and a completion callback that marks a code
\* while the store is unreachable still answers with the acknowledgement.
C22_MarkNeverRaises ==
    /\ \A p \in Procs : proc[p].cont = "mark" => proc[p].ret = "normal"
    /\ cbResponse.mark = "store_error" => cbResponse.status = "acknowledged"

C22_Witness ==
    /\ proc[PollProc].cont = "mark"
    /\ proc[PollProc].cause = "store_error"
    /\ proc[PollProc].ret = "normal"
    /\ cbResponse.mark = "store_error"
    /\ cbResponse.status = "acknowledged"
    /\ ~ valkeyUp


\* C23: marking a job's code consumed destroys its reservation: after the
\* step in which mark_totp_consumed records (provider, job_id), the store
\* holds no live reservation made by that job.
C23_MarkDestroysReservation ==
    [][\A j \in Jobs, provider \in Providers :
         (<<provider, j>> \notin consumed /\ <<provider, j>> \in consumed')
         => \A k \in Keys :
              ~ (used'[k] # NoRes /\ used'[k].job_id = j /\ now' < used'[k].exp)]_vars


\* C24: health_check returns normally, and returns true exactly when the
\* manager has a store client, the store answers the ping, and at least one
\* family secret is loaded.
C24_HealthCheck ==
    [][\A p \in Procs :
         (proc'[p].cont = "health" /\ proc'[p] # proc[p])
         => /\ proc'[p].ret = "normal"
            /\ proc'[p].answer \in {"healthy", "unhealthy"}
            /\ proc'[p].answer = "healthy"
                 <=> (/\ proc'[p].cause = "client"
                      /\ valkeyUp
                      /\ totp_secrets # {})]_vars

\* a health check that had a client, got the ping answered and found a secret
C24_Witness ==
    /\ proc[PollProc].cont = "health"
    /\ proc[PollProc].cause = "client"
    /\ proc[PollProc].answer = "healthy"
    /\ proc[PollProc].ret = "normal"
    /\ totp_secrets # {}


\* C25: find_available_worker returns the first entry, in list order, whose
\* probe answers 200 with available true, and None when there is none; a
\* probe that raises is passed over; the call changes no state.
C25_FirstAvailableWorker ==
    [][\A p \in Procs :
         (proc'[p].cont = "find_worker" /\ proc'[p] # proc[p])
         => LET ps == proc'[p].probes
                r == proc'[p].worker
                Avail == {i \in 1 .. Len(ps) : ps[i] = "available"}
            IN /\ proc'[p].ret = "normal"
               /\ Avail = {} => r = 0
               /\ Avail # {} => r \in Avail /\ \A i \in Avail : r <= i
               /\ UNCHANGED <<now, envVars, totpVars, markVars, jobVars, k8sVars,
                              pollBatch, workerJobs, cbVars>>]_vars

\* the first probe raised, the second answered busy, the third is returned
C25_Witness ==
    /\ proc[PollProc].cont = "find_worker"
    /\ Len(proc[PollProc].probes) >= 3
    /\ proc[PollProc].probes[1] = "error"
    /\ proc[PollProc].probes[2] = "busy"
    /\ proc[PollProc].probes[3] = "available"
    /\ proc[PollProc].worker = 3


\* C26: a dispatch failure does not abort the batch of a poll_job_queue
\* tick: a job leaves the batch only by the start of its own dispatch_job
\* call, and when a dispatch_job call of the tick ends, by a return or by an
\* exception, the rest of the batch is still to be dispatched and the
\* scheduler thread is back in the loop.
C26_BatchSurvivesFailure ==
    [][/\ pollBatch' # pollBatch /\ pollBatch # {}
          => \E j \in pollBatch : /\ pollBatch' = pollBatch \ {j}
                                  /\ proc'[PollProc] = Dispatching(j)
       /\ Returns(PollProc)
          => /\ pollBatch' = pollBatch
             /\ proc'[PollProc].ret \in {"normal", "raised"}]_vars

\* the dispatch of one job of the batch ended by an exception that left
\* dispatch_job, and the next job of the batch is being dispatched
C26_Witness ==
    \E j \in BatchJobs, k \in BatchJobs :
        /\ j # k
        /\ jobStatus[j] = "dispatching"
        /\ proc[PollProc].cont = "dispatch"
        /\ proc[PollProc].job_id = k
        /\ proc[PollProc].pc = "provision"
        /\ dispatches = 2


\* C27: a job is written "running" only after a worker accepted its payload,
\* and in the state in which it becomes "running" the sandbox named in its
\* result is in active_services.
C27_RunningHasWorkerAndSandbox ==
    [][\A j \in Jobs :
         (jobStatus[j] # "running" /\ jobStatus'[j] = "running")
         => /\ jobResult'[j].kind = "dispatched"
            /\ \E w \in workerJobs' : w.job_id = j /\ w.sid = jobResult'[j].n
            /\ jobResult'[j].n \in ServiceIds
            /\ active_services'[jobResult'[j].n] # NotActive]_vars


\* C28: a failure of the external completion report (no job found,
\* endpoint unreachable, error response) is not surfaced: the callback still
\* answers with the acknowledgement, and the status write, the termination
\* of the sandbox and the marking it performed before stand.
C28_ReportFailureNotSurfaced ==
    [][\A j \in Jobs :
         (/\ cbCount'[j] = cbCount[j] + 1
          /\ cbResponse'.report \in ReportAnswers \ {"ok"})
         => /\ cbResponse'.status = "acknowledged"
            /\ jobStatus'[j] \in CallbackStatuses
            /\ \E s \in ServiceIds : /\ active_services[s].job_id = j
                                     /\ active_services'[s] = NotActive
            /\ cbResponse'.mark = "stored" => <<"octotel", j>> \in consumed']_vars

\* a callback that marked a code and whose report met an unreachable endpoint
C28_Witness ==
    /\ cbResponse.report = "unreachable"
    /\ cbResponse.mark = "stored"
    /\ cbResponse.status = "acknowledged"
    /\ \E j \in Jobs : <<"octotel", j>> \in consumed /\ jobStatus[j] = "completed"


\* C29: dispatch_job rejects a job whose provider is unknown before it
\* touches a resource: while it runs for such a job no reservation is made
\* and no pod, service or active_services entry is created, and when it
\* returns the job is "failed".
C29_UnknownProviderRejected ==
    [][(/\ proc[PollProc].cont = "dispatch"
        /\ proc[PollProc].pc # "done"
        /\ proc[PollProc].provider \notin JobProviders)
       => /\ UNCHANGED <<used, pods, services, active_services>>
          /\ Returns(PollProc) => jobStatus'[proc[PollProc].job_id] = "failed"]_vars


\* C30: the completion callback performs only the transition from "running"
\* to "completed" or "failed": a callback for a job leaves its status as it
\* was unless the job was "running", and then writes one of the two.
C30_OnlyTerminalTransition ==
    [][\A j \in Jobs :
         cbCount'[j] = cbCount[j] + 1
         => \/ jobStatus'[j] = jobStatus[j]
            \/ /\ jobStatus[j] = "running"
               /\ jobStatus'[j] \in {"completed", "failed"}]_vars


\* C31: the active-set is safe under concurrent use: a sweep that runs while
\* a dispatch registers a sandbox or a callback removes one ends normally,
\* and when it has ended every sandbox that was older than the threshold
\* when it started is out of the active-set.
C31_SweepSafeUnderConcurrency ==
    \A p \in Procs :
        (proc[p].cont = "sweep" /\ proc[p].pc = "done")
        => /\ proc[p].ret = "normal"
           /\ \A s \in proc[p].oldAtStart : active_services[s] = NotActive


\* C32: the rollback of a dispatch attempt that fails after a code was
\* acquired leaves the reservations unchanged: the key the job reserved is
\* still held by it, with the expiry it was given, and a request for the
\* same code still finds it used.
C32_RollbackKeepsReservation ==
    [][\A p \in Procs :
         (/\ proc[p].cont = "dispatch"
          /\ proc[p].pc = "handler"
          /\ proc'[p].pc = "done"
          /\ proc[p].totp_code # NoCode)
         => LET k == Key(Lower(proc[p].provider), proc[p].totp_code) IN
            /\ used' = used
            /\ (used[k].job_id = proc[p].job_id /\ now < used[k].exp)
               => /\ used'[k].job_id = proc[p].job_id
                  /\ used'[k].exp = used[k].at + used_codes_ttl
                  /\ now' < used'[k].exp
                  /\ ~ SetNxAccepted(k)']_vars

\* dispatch_job found no worker after it reserved a code; it has returned,
\* the job is "failed" and the key is still held by the job
C32_Witness ==
    \E p \in Procs :
        /\ proc[p].cont = "dispatch"
        /\ proc[p].pc = "done"
        /\ proc[p].cause = "no_worker"
        /\ proc[p].totp_code # NoCode
        /\ jobStatus[proc[p].job_id] = "failed"
        /\ used[Key(Lower(proc[p].provider), proc[p].totp_code)].job_id = proc[p].job_id
        /\ Live(Key(Lower(proc[p].provider), proc[p].totp_code))


\* C33: the sleep computed by _wait_for_next_window at an integer time is
\* between 2 and totp_window + 1 seconds, and the time it ends at lies in
\* the window right after the window of the call.
C33_WaitReachesNextWindow ==
    \A p \in Procs :
        proc[p].cont = "wait"
        => LET t == proc[p].calledAt
               wait == proc[p].wakeAt - t
           IN /\ wait >= 2
              /\ wait <= totp_window + 1
              /\ wait = totp_window - (t % totp_window) + 1
              /\ Window(t + wait) = Window(t) + 1

\* a call in the last second of a window: the shortest sleep
C33_Witness ==
    /\ proc[PollProc].cont = "wait"
    /\ proc[PollProc].calledAt = 2 * totp_window - 1
    /\ proc[PollProc].wakeAt = 2 * totp_window + 1


\* C34: a reservation outlives the validity of its code: it is given an
\* expiry not before the end of the window it was made in, and no code is
\* reserved twice within one window.
C34_ReservationOutlivesWindow ==
    \A r \in resLog :
        /\ r.exp >= (Window(r.at) + 1) * totp_window
        /\ \A q \in resLog :
             (q.key = r.key /\ Window(q.at) = Window(r.at)) => q = r

\* the window of a reservation made by a job has just ended and the key is
\* still held by that job
C34_Witness ==
    \E r \in resLog :
        /\ r.job_id # 0
        /\ r.at > 0
        /\ now = (Window(r.at) + 1) * totp_window
        /\ Live(r.key)
        /\ used[r.key].job_id = r.job_id
        /\ used[r.key].at = r.at


\* C35: readiness polling is bounded and short-circuits: a read that shows
\* phase Failed or Unknown, or raises, ends the wait with false at that read;
\* true is returned only at a read that shows the pod ready; otherwise false
\* is returned once the timeout has elapsed, never later than one read and
\* one sleep after it.
C35_ReadinessPolling ==
    \A p \in Procs :
        proc[p].cont = "wait_ready"
        => LET readAt == proc[p].pending * (proc[p].readTime + ready_sleep)
               inTime == readAt < ready_timeout
           IN /\ proc[p].elapsed <= ready_timeout + proc[p].readTime + ready_sleep
              /\ proc[p].readyRet <=> (inTime /\ proc[p].answer = "ready")
              /\ proc[p].ret = "raised" <=> (inTime /\ proc[p].answer = "exception")
              /\ inTime => proc[p].elapsed = readAt + proc[p].readTime
              /\ ~ inTime => /\ proc[p].cause = "timeout"
                             /\ proc[p].elapsed >= ready_timeout

\* a pod seen in phase Unknown at its fourth read: false, after 6 seconds
C35_Witness ==
    /\ proc[PollProc].cont = "wait_ready"
    /\ proc[PollProc].pending = 3
    /\ proc[PollProc].answer = "unknown"
    /\ proc[PollProc].readTime = 0
    /\ proc[PollProc].readyRet = FALSE
    /\ proc[PollProc].elapsed = 3 * ready_sleep

\* C36: a call of provision_browser_service that returns None leaves the
\* dictionary of active sandboxes as it was; a call that returns a sandbox
\* has seen the pod ready and the browser healthy, and adds exactly one entry,
\* under the new sandbox id, holding the job id and the creation time
C36_RegisteredOnlyOnSuccess ==
    [][\A p \in Procs :
         (proc[p].pc = "provision" /\ proc'[p].pc # "provision")
         => IF proc'[p].bsi = BsiNone
            THEN active_services' = active_services
            ELSE /\ proc'[p].sawReady = "ready"
                 /\ proc'[p].sawHealthy
                 /\ active_services[proc'[p].bsi] = NotActive
                 /\ active_services' =
                      [active_services EXCEPT ![proc'[p].bsi] =
                          [job_id |-> proc[p].job_id, created_at |-> now]]]_vars

\* one sandbox is tracked, and a later call found its browser unhealthy and
\* returned None
C36_Witness ==
    /\ proc[PollProc].pc = "returned"
    /\ proc[PollProc].cont = "direct"
    /\ proc[PollProc].bsi = BsiNone
    /\ proc[PollProc].provOutcome = "unhealthy"
    /\ Cardinality(ActiveIds) = 1
    /\ proc[PollProc].sid \notin ActiveIds

C38_CodeOnlyWithOwnReservation ==
    [][\A p \in Procs :
         (proc[p].pc \in {"totp_enter", "totp_gen", "totp_reserve", "totp_sleep"}
            /\ proc'[p].pc = "returned")
         => /\ proc'[p].ret # "raised"
            /\ proc'[p].totp_code # NoCode
                 => LET k == Key(proc[p].provider, proc'[p].totp_code) IN
                      /\ valkeyUp
                      /\ proc[p].pc = "totp_reserve"
                      /\ proc[p].provider \in totp_providers
                      /\ ~ Live(k)
                      /\ used'[k] = [job_id |-> proc[p].job_id, at |-> now,
                                     exp |-> ReservationExpiry(now)]
            /\ (~ valkeyUp /\ proc[p].pc = "totp_reserve")
                 => /\ used' = used
                    /\ proc'[p].totp_code = NoCode]_vars

\* a call for a provider with a secret gave up after max_retries attempts
\* with the store unreachable: None, and no reservation of the job anywhere
C38_Witness ==
    \E p \in Procs :
        /\ proc[p].pc = "returned"
        /\ proc[p].cont = "direct"
        /\ proc[p].provider \in totp_secrets
        /\ proc[p].totp_code = NoCode
        /\ proc[p].attempt = max_retries
        /\ ~ valkeyUp
        /\ \A r \in resLog : r.job_id # proc[p].job_id

\* C39: an entry leaves the dictionary of active sandboxes only in the
\* removal step of a terminate_browser_service call for it whose two delete
\* requests were answered, each with the resource deleted or with 404, and
\* that call returns True; a call one of whose delete requests failed returns
\* False and leaves the entry in the dictionary
C39_RemovedOnlyAfterBothDeletes ==
    [][/\ \A sid \in ServiceIds :
            (active_services[sid] # NotActive /\ active_services'[sid] = NotActive)
            => \E p \in Procs :
                 /\ proc[p].pc = "term_remove"
                 /\ proc[p].target = sid
                 /\ proc[p].issued
                 /\ proc[p].podStatus \in {"deleted", "not_found"}
                 /\ proc[p].svcStatus \in {"deleted", "not_found"}
                 /\ proc'[p].pc = "returned"
                 /\ proc'[p].termRet = "true"
       /\ \A p \in Procs :
            (proc[p].pc = "term_cleanup" /\ proc'[p].pc # "term_cleanup"
               /\ \/ proc'[p].podStatus \notin {"deleted", "not_found"}
                  \/ proc'[p].svcStatus \notin {"deleted", "not_found"})
            => /\ proc'[p].pc = "returned"
               /\ proc'[p].termRet = "false"
               /\ active_services' = active_services]_vars

\* a terminate call whose pod delete was answered and whose service delete
\* failed has returned False, and the sandbox is still in the dictionary
C39_Witness ==
    \E p \in Procs :
        /\ proc[p].pc = "returned"
        /\ proc[p].issued
        /\ proc[p].podStatus = "not_found"
        /\ proc[p].svcStatus \notin {"deleted", "not_found"}
        /\ proc[p].termRet = "false"
        /\ proc[p].target \in ActiveIds

\* C40: when a worker of the list is reachable and runs no job,
\* find_available_worker returns a worker of the list that is reachable and
\* runs no job; and the response of a reachable worker to a payload it
\* accepts, whose automation returns, is taken by dispatch_job as acceptance
C40_WorkerProtocolCompatible ==
    \A p \in Procs :
        /\ (/\ proc[p].cont = "protocol_find"
            /\ \E i \in 1 .. Len(proc[p].pool) :
                  proc[p].pool[i].reachable /\ proc[p].pool[i].active_jobs = 0)
           => /\ proc[p].worker \in 1 .. Len(proc[p].pool)
              /\ proc[p].pool[proc[p].worker].reachable
              /\ proc[p].pool[proc[p].worker].active_jobs = 0
        /\ (/\ proc[p].cont = "protocol_send"
            /\ proc[p].pool[1].reachable
            /\ proc[p].payloadValid
            /\ proc[p].cause = "returns")
           => /\ Accepted(proc[p].answer)
              /\ proc[p].ret = "normal"

=============================================================================
